---- MODULE Spec2Model ----
(***************************************************************************)
(* Model of the request orchestration of assets/js/api.js (class           *)
(* ApiService): the response cache, the map of pending requests, the retry *)
(* loop with exponential backoff, and the timers they start.               *)
(*                                                                         *)
(* JavaScript runs one job at a time, so every action below is one job of  *)
(* the event loop: the synchronous part of a call, or the continuation     *)
(* that runs when a promise settles or a timer fires.                      *)
(*                                                                         *)
(* Strings are sequences of tokens, so that template strings are           *)
(* concatenations and String.includes is a search for a subsequence.       *)
(*                                                                         *)
(* The second half models assets/js/auth.js (class AuthService) over it:   *)
(* the session held in memory and in localStorage, its expiry against      *)
(* Date.now(), login, register, refresh, logout and the two intervals.     *)
(* AuthService and the pages call the global instance API, on which api.js *)
(* installs a request and a response interceptor: their calls go through   *)
(* API_request, which runs the interceptors as they are installed. The     *)
(* properties of the class ApiService are checked on an instance with the  *)
(* _makeRequest of the class, which callers reach through Request.         *)
(* getStatus() asks the backend directly, beside request().                *)
(*                                                                         *)
(* The last part models the dashboard page (class Dashboard): its init(),  *)
(* the loads it makes through the global API, and the handlers of its two  *)
(* forms with the reload each makes when its call has succeeded.           *)
(***************************************************************************)
EXTENDS Integers, Sequences, FiniteSets, TLC

(* ----------------------------- bounds --------------------------------- *)

\* Number of request() calls made in one behaviour.
MaxCalls == 3

\* Number of request() calls made in one behaviour of SpecRetry.
MaxRetryCalls == 2

\* Number of request() calls made in one behaviour of SpecLive.
MaxLiveCalls == 2

\* Number of request() calls made in one behaviour of SpecAuth.
MaxAuthCalls == 1

\* Number of request() calls made in one behaviour of SpecLogout.
MaxPageCalls == 2

\* Number of times the clock of SpecAuth advances.
MaxClockSteps == 2

\* Number of init() calls made on an AuthService after its construction.
MaxInits == 1

\* Number of getStatus() calls made in one behaviour.
MaxStatusCalls == 1

\* Number of invocations of methods of the Dashboard that await a request,
\* in one behaviour; the three loads init() starts are three of them.
MaxDashOps == 6

(* ------------------------ program constants --------------------------- *)

\* options.retries || 3
DefaultRetries == 3

\* options.retryDelay || 1000
DefaultRetryDelay == 1000

\* The clock advances in steps of the default retry delay (milliseconds).
TickMs == DefaultRetryDelay

(* --------------------------- JavaScript ------------------------------- *)

\* a || b for numbers: 0 (and an omitted option, written 0) is falsy.
OrElseNum(a, b) == IF a = 0 THEN b ELSE a

\* a || b for strings: "" (and an omitted option, written <<>>) is falsy.
OrElseStr(a, b) == IF a = <<>> THEN b ELSE a

RECURSIVE Pow2(_)
\* Math.pow(2, n) for n >= 0
Pow2(n) == IF n <= 0 THEN 1 ELSE 2 * Pow2(n - 1)

\* "x" as JSON.stringify writes a string
Quote(s) == <<"\"">> \o s \o <<"\"">>

\* The value null of a member, where the value of a member is a string
\* otherwise: a token no string of the inputs holds.
Null == <<"\\0">>

\* !v of a string or null.
Falsy(v) == v = Null \/ v = <<>>

RECURSIVE StringifyFields(_)
\* The members of an object, in insertion order, separated by commas; a
\* string is written in quotes, null as null.
StringifyFields(data) ==
    IF data = <<>> THEN <<>>
    ELSE Quote(<<data[1][1]>>) \o <<":">>
         \o (IF data[1][2] = Null THEN <<"null">> ELSE Quote(data[1][2]))
         \o (IF Len(data) > 1 THEN <<",">> ELSE <<>>)
         \o StringifyFields(Tail(data))

\* JSON.stringify(data) for an object of string or null members: a payload
\* is the sequence of its <<name, value>> members in insertion order.
Stringify(data) == <<"{">> \o StringifyFields(data) \o <<"}">>

\* String.prototype.includes: s holds t as a contiguous part.
Includes(s, t) ==
    \E i \in 0..(Len(s) - Len(t)) : SubSeq(s, i + 1, i + Len(t)) = t

(* ----------------------------- inputs --------------------------------- *)

UserA == <<"a@x.io">>

\* Two payloads with the same members, written in the two possible orders.
PayloadES == << <<"email", UserA>>, <<"status", <<"queued">>>> >>
PayloadSE == << <<"status", <<"queued">>>>, <<"email", UserA>> >>

\* The arguments of one request(endpoint, data, options) call; an omitted
\* option is written as the falsy value of its type.
\* SpecCache draws reads of one list, cached or not, and a write that has
\* the key of a read and asks to be cached; none is retried.
Inputs ==
    [ endpoint : { <<"post.list">> }, data : { PayloadES, PayloadSE },
      method : { <<"GET">> }, cacheKey : { <<>> },
      cacheTime : { 0, 2 * TickMs }, retries : { 1 }, retryDelay : { 0 } ]
    \cup
    [ endpoint : { <<"post.list">> }, data : { PayloadES },
      method : { <<>> }, cacheKey : { <<>> },
      cacheTime : { 2 * TickMs }, retries : { 1 }, retryDelay : { 0 } ]

\* SpecRetry draws writes to two endpoints, with every retry budget and
\* with another delay than the default one.
RetryInputs ==
    [ endpoint : { <<"post.create">> }, data : { PayloadES },
      method : { <<>> }, cacheKey : { <<>> }, cacheTime : { 0 },
      retries : { 0, 1, 2 }, retryDelay : { 0 } ]
    \cup
    [ endpoint : { <<"token.save">> }, data : { PayloadES },
      method : { <<>> }, cacheKey : { <<>> }, cacheTime : { 0 },
      retries : { 2 }, retryDelay : { 2 * DefaultRetryDelay } ]

\* null, undefined, an object and an array, as a variable that holds a
\* user, a list or the result of a method holds them. An object is the
\* sequence of its <<name, value>> members, as a payload is; an array is the
\* sequence of its items.
JsNull == [is |-> "null", obj |-> <<>>]
JsUndefined == [is |-> "undefined", obj |-> <<>>]
Obj(members) == [is |-> "object", obj |-> members]
Arr(items) == [is |-> "array", obj |-> items]

\* !!v
Truthy(v) == v.is \in {"object", "array"}

\* The users the backend knows.
UserRecord == << <<"email", UserA>>, <<"plan", <<"free">>>> >>
UserRecordPro == << <<"email", UserA>>, <<"plan", <<"pro">>>> >>
Users == { UserRecord, UserRecordPro }

\* result.profile of the answer to user.profile: an object with the member
\* user.
Profile(user) == [is |-> "object", obj |-> <<>>, user |-> user]

\* result.stats of the answer to user.stats: an object with the member
\* overview.
Stats(overview) == [is |-> "object", obj |-> <<>>, overview |-> overview]

\* The figures of an overview, a connected platform and a scheduled post,
\* as the backend lists them.
OverviewRecord == << <<"total", <<"1">>>>, <<"pending", <<"1">>>> >>
TokenRecord == << <<"platform", <<"telegram">>>> >>
PostRecord ==
    << <<"platform", <<"telegram">>>>, <<"message", <<"hello">>>>,
       <<"status", <<"pending">>>> >>

\* The members of a parsed body that the pages read beside success and
\* message, each undefined where the body has no member of that name.
NoMembers ==
    [user |-> JsUndefined, profile |-> JsUndefined, stats |-> JsUndefined,
     tokens |-> JsUndefined, posts |-> JsUndefined]

\* What the transport can answer to one exchange: fetch rejects, or it
\* fulfils with a status line and a body; reading the body (response.text())
\* rejects, or fulfils with a text that parses as JSON or does not.
Refusals ==
    { [fetch |-> "rejected", ok |-> FALSE, status |-> "0", statusText |-> "",
       text |-> "rejected",
       json |-> FALSE, success |-> FALSE, message |-> <<>>],
      [fetch |-> "fulfilled", ok |-> FALSE, status |-> "500",
       statusText |-> "Internal Server Error", text |-> "fulfilled",
       json |-> FALSE, success |-> FALSE, message |-> <<>>],
      [fetch |-> "fulfilled", ok |-> TRUE, status |-> "200", statusText |-> "OK",
       text |-> "rejected",
       json |-> FALSE, success |-> FALSE, message |-> <<>>],
      [fetch |-> "fulfilled", ok |-> TRUE, status |-> "200", statusText |-> "OK",
       text |-> "fulfilled",
       json |-> FALSE, success |-> FALSE, message |-> <<>>],
      [fetch |-> "fulfilled", ok |-> TRUE, status |-> "200", statusText |-> "OK",
       text |-> "fulfilled",
       json |-> TRUE, success |-> FALSE, message |-> <<"Invalid credentials">>],
      [fetch |-> "fulfilled", ok |-> TRUE, status |-> "200", statusText |-> "OK",
       text |-> "fulfilled",
       json |-> TRUE, success |-> FALSE, message |-> <<>>] }

\* A body with success set and the members it carries.
Success(members) ==
    [fetch |-> "fulfilled", ok |-> TRUE, status |-> "200", statusText |-> "OK",
     text |-> "fulfilled",
     json |-> TRUE, success |-> TRUE, message |-> <<>>] @@ members

\* The answers: every refusal, a success without a member, and the
\* successes of the endpoints the pages call, with the member the page
\* reads and, for the lists and the stats, with a member that is not whole.
Responses ==
    { r @@ NoMembers : r \in Refusals }
    \cup { Success(NoMembers),
           Success([NoMembers EXCEPT !.user = Obj(UserRecordPro)]),
           Success([NoMembers EXCEPT
                       !.profile = Profile(Obj(UserRecordPro))]),
           Success([NoMembers EXCEPT !.stats = Stats(Obj(OverviewRecord))]),
           Success([NoMembers EXCEPT !.stats = Stats(JsUndefined)]),
           Success([NoMembers EXCEPT !.tokens = Arr(<<>>)]),
           Success([NoMembers EXCEPT !.tokens = Arr(<<Obj(TokenRecord)>>)]),
           Success([NoMembers EXCEPT !.posts = Arr(<<Obj(PostRecord)>>)]) }

\* The answers whose body has none of those members.
PlainResponses ==
    {x \in Responses :
        \A m \in DOMAIN NoMembers : x[m] = JsUndefined}

(* ------------------------------ state --------------------------------- *)

VARIABLES
    cache,         \* this.cache: key -> result
    requestQueue,  \* this.requestQueue: key -> the pending _makeRequest
    timers,        \* the eviction timers request() has started, each with
                   \* the time left until it is due
    reqs,          \* the _makeRequest invocations, in order of creation
    calls,         \* the request() invocations, in order of creation
    serial,        \* number of transport exchanges issued so far
    stored,        \* history: key -> the last cache.set of that key
    currentUser,   \* Auth.currentUser
    localStorage,  \* window.localStorage: key -> string
    now,           \* Date.now()
    intervals,     \* the setInterval timers of Auth and of the Dashboard in
                   \* the order they were started, each with the time left
                   \* until it is due next
    ops,           \* the invocations of login, register, refreshUserData
                   \* and getStatus, and of the methods of the Dashboard
    ret,           \* history: the last requireAuth() or expiry check, and
                   \* whether it found the user authenticated
    dashboard      \* the Dashboard of the page: undefined until the page
                   \* has constructed it

apiVars == <<cache, requestQueue, timers, reqs, calls, serial, stored>>

authVars ==
    <<currentUser, localStorage, now, intervals, ops, ret, dashboard>>

vars == <<cache, requestQueue, timers, reqs, calls, serial, stored,
          currentUser, localStorage, now, intervals, ops, ret, dashboard>>

\* A promise that has not settled holds no value.
NoValue == [none |-> TRUE]

\* A map without key k (Map.prototype.delete).
MapDelete(m, k) == [x \in DOMAIN m \ {k} |-> m[x]]

\* A map with k set to v (Map.prototype.set).
MapSet(m, k, v) == [x \in DOMAIN m \cup {k} |-> IF x = k THEN v ELSE m[x]]

EmptyMap == [x \in {} |-> NoValue]

Settled(r) == reqs[r].st \in {"resolved", "rejected"}

\* The ApiService after its constructor.
InitApi ==
    /\ cache = EmptyMap
    /\ requestQueue = EmptyMap
    /\ timers = {}
    /\ reqs = <<>>
    /\ calls = <<>>
    /\ serial = 0
    /\ stored = EmptyMap

(* ------------------------- values of auth.js -------------------------- *)

\* this.sessionTimeout = 24 * 60 * 60 * 1000
SessionTimeout == 24 * 60 * 60 * 1000

\* The period of the refresh interval: 5 * 60 * 1000
RefreshPeriod == 5 * 60 * 1000

\* The period of the expiry check interval: 60 * 1000
CheckPeriod == 60 * 1000

\* Date.now() when the page is loaded.
StartTime == SessionTimeout


\* Whether an object has a member of that name.
Has(data, name) == \E i \in DOMAIN data : data[i][1] = name

\* obj[name] of a member of string value, read where a string is expected:
\* a missing member reads as undefined, which writes "undefined".
Get(data, name) ==
    IF Has(data, name)
    THEN data[CHOOSE i \in DOMAIN data : data[i][1] = name][2]
    ELSE <<"undefined">>

\* obj[name] = value: a member keeps its place, a new member goes last.
Put(data, name, value) ==
    IF Has(data, name)
    THEN [i \in DOMAIN data |->
            IF data[i][1] = name THEN <<name, value>> ELSE data[i]]
    ELSE Append(data, <<name, value>>)

\* The decimal digits.
Digits == <<"0", "1", "2", "3", "4", "5", "6", "7", "8", "9">>

\* The value of a digit, -1 for any other token.
DigitValue(t) ==
    IF \E d \in DOMAIN Digits : Digits[d] = t
    THEN (CHOOSE d \in DOMAIN Digits : Digits[d] = t) - 1
    ELSE -1

RECURSIVE NumberToString(_)
\* Number.prototype.toString() of an integer n >= 0: its decimal digits.
NumberToString(n) ==
    IF n < 10 THEN <<Digits[n + 1]>>
    ELSE Append(NumberToString(n \div 10), Digits[(n % 10) + 1])

\* Not a number.
NaN == -1

RECURSIVE ParseDigits(_, _)
\* The value of the digits s starts with, after the value acc.
ParseDigits(s, acc) ==
    IF s = <<>> \/ DigitValue(Head(s)) < 0 THEN acc
    ELSE ParseDigits(Tail(s), 10 * acc + DigitValue(Head(s)))

\* parseInt(s) of a string without sign: the number its leading digits
\* write, NaN when it starts with no digit.
ParseInt(s) ==
    IF s = <<>> \/ DigitValue(Head(s)) < 0 THEN NaN ELSE ParseDigits(s, 0)

\* a > b of two numbers: false when either is NaN.
GreaterThan(a, b) == a # NaN /\ b # NaN /\ a > b


\* JSON.parse(s) of a stored user: the object that s writes.
JsonParse(s) == Obj(CHOOSE u \in Users : Stringify(u) = s)

\* The localStorage entries of a session.
SessionKeys == {"userEmail", "userData", "sessionExpiry"}

\* localStorage.getItem(k): the string, or null, which the code only tests
\* for being falsy as it tests "".
GetItem(k) == IF k \in DOMAIN localStorage THEN localStorage[k] ELSE <<>>

\* Neither requireAuth() nor the expiry check has run yet.
NoRet == [op |-> "none", bool |-> FALSE, user |-> JsNull]

\* api.js alone: no Auth is constructed and nothing is persisted.
InitNoAuth ==
    /\ currentUser = JsNull
    /\ localStorage = [k \in {} |-> <<>>]
    /\ now = StartTime
    /\ intervals = <<>>
    /\ ops = <<>>
    /\ ret = NoRet
    /\ dashboard = JsUndefined

Init == InitApi /\ InitNoAuth

(* ---------------------------- operations ------------------------------ *)

\* _generateCacheKey: `${endpoint}_${JSON.stringify(data)}`
generateCacheKey(endpoint, data) == endpoint \o <<"_">> \o Stringify(data)

\* The key request() uses: options.cacheKey || this._generateCacheKey(..)
CacheKeyOf(inp) ==
    OrElseStr(inp.cacheKey, generateCacheKey(inp.endpoint, inp.data))

\* options.method || 'POST'
MethodOf(inp) == OrElseStr(inp.method, <<"POST">>)

\* Whether the retry loop runs another pass: attempt <= maxRetries
LoopContinues(attempt, maxRetries) == attempt <= maxRetries

\* A retry loop that gives up one attempt early.
LastAttemptOffByOne(attempt, maxRetries) == attempt >= maxRetries - 1

\* Whether a failed attempt is the last one: attempt === maxRetries
LastAttempt(attempt, maxRetries) == attempt = maxRetries

\* A retry loop that waits the same delay before every attempt.
BackoffConstant(retryDelay, attempt) == retryDelay

\* The delay before the attempt that follows the failed attempt `attempt`:
\* retryDelay * Math.pow(2, attempt - 1)
BackoffDelay(retryDelay, attempt) == retryDelay * Pow2(attempt - 1)

\* A _sleep whose promise is never resolved.
SleepDueNever(left) == FALSE

\* Whether the timer of _sleep(ms) has resolved its promise, given the time
\* left of ms.
SleepDue(left) == left = 0

\* The error of the last attempt, as _makeRequest throws it to its caller.
AggregatedError(maxRetries, message) ==
    [error |-> <<"API request failed after ", ToString(maxRetries),
                 " attempts: ">> \o message]

\* A _makeRequest that returns every body that parses, whatever its
\* success indicator.
AttemptOutcomeAnyBody(resp, n) ==
    IF resp.fetch = "rejected" THEN [error |-> <<"Failed to fetch">>]
    ELSE IF ~resp.ok
        THEN [error |-> <<"HTTP ", resp.status, ": ", resp.statusText>>]
    ELSE IF resp.text = "rejected" THEN [error |-> <<"network error">>]
    ELSE IF ~resp.json THEN [error |-> <<"Invalid JSON response from server">>]
    ELSE [success |-> resp.success, data |-> n]

\* One pass through the try block of _makeRequest, given what fetch and
\* response.text() settle with: the parsed body it returns, or the error it
\* throws. The body of a successful answer is told apart by the number n of
\* its exchange.
AttemptOutcome(resp, n) ==
    IF resp.fetch = "rejected" THEN [error |-> <<"Failed to fetch">>]
    ELSE IF ~resp.ok
        THEN [error |-> <<"HTTP ", resp.status, ": ", resp.statusText>>]
    ELSE IF resp.text = "rejected" THEN [error |-> <<"network error">>]
    ELSE IF ~resp.json THEN [error |-> <<"Invalid JSON response from server">>]
    ELSE IF ~resp.success
        THEN [error |-> OrElseStr(resp.message, <<"Request failed">>)]
    ELSE [success |-> TRUE, data |-> n]

IsError(v) == "error" \in DOMAIN v

\* What an async function that runs off its end resolves with.
Undefined == [undefined |-> TRUE]

\* Whether request() answers from the cache:
\* method === 'GET' && this.cache.has(cacheKey)
CacheHit(method, cacheKey) == method = <<"GET">> /\ cacheKey \in DOMAIN cache

\* A request() that never finds a pending promise.
PendingNever(queue, cacheKey) == FALSE

\* Whether request() returns a promise that is already pending:
\* this.requestQueue.has(cacheKey), for the requestQueue as the calls made
\* earlier in the same job have left it.
Pending(queue, cacheKey) == cacheKey \in DOMAIN queue

\* A request() that caches the result of any method.
CacheableAnyMethod(method, cacheTime) == cacheTime # 0

\* Whether request() caches a result: method === 'GET' && options.cacheTime
Cacheable(method, cacheTime) == method = <<"GET">> /\ cacheTime # 0

\* _makeRequest from its first line to its first await: the loop is entered
\* with attempt = 1 and exchange number n is sent. opt and answers are
\* history: the options as given, and the number of loop passes that have
\* ended with an answer.
makeRequest(inp, n) ==
    LET maxRetries == OrElseNum(inp.retries, DefaultRetries)
        enter == LoopContinues(1, maxRetries)
    IN  [ key |-> CacheKeyOf(inp),
          maxRetries |-> maxRetries,
          retryDelay |-> OrElseNum(inp.retryDelay, DefaultRetryDelay),
          attempt |-> 1,
          st |-> IF enter THEN "fetch" ELSE "resolved",
          sent |-> IF enter THEN 1 ELSE 0,
          xid |-> IF enter THEN n ELSE 0,
          left |-> 0, waits |-> <<>>,
          out |-> IF enter THEN NoValue ELSE Undefined,
          opt |-> [retries |-> inp.retries, retryDelay |-> inp.retryDelay],
          answers |-> 0, settledBy |-> NoValue ]

\* History kept with a call: the _makeRequest of its key that had not settled
\* when the call was made (0 if none) and the state it was in.
InFlight(rs, cacheKey) ==
    LET live == {r \in DOMAIN rs :
                    /\ rs[r].key = cacheKey
                    /\ rs[r].st \notin {"resolved", "rejected"}}
    IN  IF live = {} THEN [id |-> 0, st |-> "none"]
        ELSE LET r == CHOOSE x \in live : TRUE
             IN  [id |-> r, st |-> rs[r].st]

\* History kept with a call: the call that cached the last value under its
\* key, while the time to live of that value runs and nothing has cleared
\* it (0 otherwise).
FreshOf(cacheKey) ==
    IF /\ cacheKey \in DOMAIN stored
       /\ ~stored[cacheKey].cleared
       /\ stored[cacheKey].left > 0
    THEN stored[cacheKey].by ELSE 0

\* The promise request() returns for a pending key:
\* this.requestQueue.get(cacheKey)
QueueGet(queue, cacheKey) == queue[cacheKey]

\* What request() changes of an ApiService before its first await.
Service ==
    [requestQueue |-> requestQueue, reqs |-> reqs, calls |-> calls,
     serial |-> serial]

\* request(), from its first line to its first await or to its return: what
\* it makes of the ApiService api, where q is what this._makeRequest does
\* up to its first await when it is called. The calls a job makes one after
\* the other each start from what the one before has left.
requestVia(api, inp, q) ==
    LET cacheKey == CacheKeyOf(inp)
        method == MethodOf(inp)
        call == [ key |-> cacheKey, method |-> method,
                  endpoint |-> inp.endpoint, data |-> inp.data,
                  busy |-> InFlight(api.reqs, cacheKey),
                  fresh |-> FreshOf(cacheKey) ]
    IN  IF CacheHit(method, cacheKey)
        THEN [api EXCEPT !.calls = Append(@, call @@
                    [via |-> "cache", req |-> 0, st |-> "resolved",
                     out |-> cache[cacheKey], cacheTime |-> 0,
                     stale |-> stored[cacheKey].left = 0])]
        ELSE IF Pending(api.requestQueue, cacheKey)
        THEN [api EXCEPT !.calls = Append(@, call @@
                    [via |-> "queue",
                     req |-> QueueGet(api.requestQueue, cacheKey),
                     st |-> "pending", out |-> NoValue, cacheTime |-> 0,
                     stale |-> FALSE])]
        ELSE [reqs |-> Append(api.reqs, q),
              serial |-> api.serial + q.sent,
              requestQueue |->
                  MapSet(api.requestQueue, cacheKey, Len(api.reqs) + 1),
              calls |-> Append(api.calls, call @@
                  [via |-> "new", req |-> Len(api.reqs) + 1,
                   st |-> "pending", out |-> NoValue,
                   cacheTime |-> inp.cacheTime, stale |-> FALSE])]

\* The ApiService is left as the calls of a job have made it; request()
\* writes neither the cache nor a timer before its first await.
Becomes(api) ==
    /\ requestQueue' = api.requestQueue
    /\ reqs' = api.reqs
    /\ calls' = api.calls
    /\ serial' = api.serial
    /\ UNCHANGED <<cache, timers, stored>>

\* request() of an ApiService whose _makeRequest is the method of the class.
request(inp) == Becomes(requestVia(Service, inp, makeRequest(inp, serial + 1)))

\* A caller other than Auth calls request() of the class.
Request(inp) == request(inp) /\ UNCHANGED authVars

\* Whether _makeRequest goes on to `await response.text()` once fetch has
\* settled: fetch fulfilled and response.ok.
ReadsBody(resp) == resp.fetch = "fulfilled" /\ resp.ok

\* How one loop pass of _makeRequest ends, q being the invocation with the
\* pass counted: return the result, throw the aggregated error, or start
\* the backoff sleep.
EndOfAttempt(q, resp) ==
    LET o == AttemptOutcome(resp, q.xid)
    IN  IF ~IsError(o)
            THEN [q EXCEPT !.st = "resolved", !.out = o, !.settledBy = resp]
        ELSE IF LastAttempt(q.attempt, q.maxRetries)
            THEN [q EXCEPT !.st = "rejected",
                     !.out = AggregatedError(q.maxRetries, o.error),
                     !.settledBy = resp]
        ELSE [q EXCEPT !.st = "sleep",
                 !.left = BackoffDelay(q.retryDelay, q.attempt),
                 !.waits = Append(q.waits,
                             BackoffDelay(q.retryDelay, q.attempt))]

\* _makeRequest after `await fetch(..)`: a response that is ok is read
\* (the function awaits response.text()), any other outcome ends the pass.
FetchSettle(r, resp) ==
    /\ r \in DOMAIN reqs
    /\ reqs[r].st = "fetch"
    /\ reqs' = [reqs EXCEPT ![r] =
          IF ReadsBody(resp) THEN [@ EXCEPT !.st = "text"]
          ELSE EndOfAttempt([@ EXCEPT !.answers = @ + 1], resp)]
    /\ UNCHANGED <<cache, requestQueue, timers, calls, serial, stored>>
    /\ UNCHANGED authVars

\* _makeRequest after `await response.text()`, the body of the answer
\* read or its reading failed: the rest of the loop pass.
TextSettle(r, resp) ==
    /\ r \in DOMAIN reqs
    /\ reqs[r].st = "text"
    /\ ReadsBody(resp)
    /\ reqs' = [reqs EXCEPT ![r] =
          EndOfAttempt([@ EXCEPT !.answers = @ + 1], resp)]
    /\ UNCHANGED <<cache, requestQueue, timers, calls, serial, stored>>
    /\ UNCHANGED authVars

\* The timer of _sleep fires: attempt++, and the loop sends the next
\* exchange or, its condition false, ends and the function returns nothing.
SleepWake(r) ==
    /\ r \in DOMAIN reqs
    /\ reqs[r].st = "sleep"
    /\ SleepDue(reqs[r].left)
    /\ IF LoopContinues(reqs[r].attempt + 1, reqs[r].maxRetries)
       THEN /\ reqs' = [reqs EXCEPT ![r].attempt = @ + 1, ![r].st = "fetch",
                                    ![r].sent = @ + 1, ![r].xid = serial + 1]
            /\ serial' = serial + 1
       ELSE /\ reqs' = [reqs EXCEPT ![r].attempt = @ + 1,
                                    ![r].st = "resolved", ![r].out = Undefined]
            /\ serial' = serial
    /\ UNCHANGED <<cache, requestQueue, timers, calls, stored>>
    /\ UNCHANGED authVars

\* A request() whose pending entry stays when its promise was rejected.
RequestResumeKeepsFailed(c) ==
    /\ c \in DOMAIN calls
    /\ calls[c].via = "new"
    /\ calls[c].st = "pending"
    /\ Settled(calls[c].req)
    /\ calls' = [calls EXCEPT ![c].st = reqs[calls[c].req].st,
                              ![c].out = reqs[calls[c].req].out,
                              ![c].cacheTime = 0]
    /\ requestQueue' = IF reqs[calls[c].req].st = "rejected"
                          THEN requestQueue
                          ELSE MapDelete(requestQueue, calls[c].key)
    /\ UNCHANGED <<cache, timers, stored, reqs, serial>>
    /\ UNCHANGED authVars

\* request() after `await requestPromise`, for the call that created the
\* promise: cache the result of a GET with cacheTime and start its eviction
\* timer, then (finally) delete the pending entry.
RequestResume(c) ==
    /\ c \in DOMAIN calls
    /\ calls[c].via = "new"
    /\ calls[c].st = "pending"
    /\ Settled(calls[c].req)
    /\ LET k == calls[c].key
           q == reqs[calls[c].req]
           caching == /\ q.st = "resolved"
                      /\ Cacheable(calls[c].method, calls[c].cacheTime)
       IN  /\ calls' = [calls EXCEPT ![c].st = q.st, ![c].out = q.out,
                                     ![c].cacheTime = 0]
           /\ requestQueue' = MapDelete(requestQueue, k)
           /\ cache' = IF caching THEN MapSet(cache, k, q.out) ELSE cache
           /\ timers' = IF caching
                 THEN timers \cup {[key |-> k, left |-> calls[c].cacheTime,
                                    by |-> c]}
                 ELSE timers
           /\ stored' = IF caching
                 THEN MapSet(stored, k,
                        [value |-> q.out, left |-> calls[c].cacheTime,
                         ttl |-> calls[c].cacheTime, by |-> c,
                         cleared |-> FALSE])
                 ELSE stored
    /\ UNCHANGED <<reqs, serial>>
    /\ UNCHANGED authVars

\* The call whose _makeRequest is reqs[r].
Creator(r) == CHOOSE c \in DOMAIN calls : calls[c].via = "new" /\ calls[c].req = r

\* A call that returned the pending promise of another call settles as that
\* promise does; the reaction of the creating call was registered first and
\* has run by then.
QueueReturn(c) ==
    /\ c \in DOMAIN calls
    /\ calls[c].via = "queue"
    /\ calls[c].st = "pending"
    /\ Settled(calls[c].req)
    /\ calls[Creator(calls[c].req)].st # "pending"
    /\ calls' = [calls EXCEPT ![c].st = reqs[calls[c].req].st,
                              ![c].out = reqs[calls[c].req].out]
    /\ UNCHANGED <<cache, requestQueue, timers, reqs, serial, stored>>
    /\ UNCHANGED authVars

\* The eviction timer started by request() fires: this.cache.delete(key).
CacheTimeout(tm) ==
    /\ tm \in timers
    /\ tm.left = 0
    /\ cache' = MapDelete(cache, tm.key)
    /\ timers' = timers \ {tm}
    /\ UNCHANGED <<requestQueue, reqs, calls, serial, stored>>
    /\ UNCHANGED authVars

\* clearCache(): what it does to the ApiService.
clearCache ==
    /\ cache' = EmptyMap
    /\ stored' = [k \in DOMAIN stored |->
                    IF k \in DOMAIN cache THEN [stored[k] EXCEPT !.cleared = TRUE]
                    ELSE stored[k]]
    /\ UNCHANGED <<requestQueue, timers, reqs, calls, serial>>

\* A caller other than Auth calls clearCache() on a cache that holds entries.
ClearCache ==
    /\ cache # EmptyMap
    /\ clearCache
    /\ UNCHANGED authVars

\* clearUserCache(email)
ClearUserCache(email) ==
    /\ \E k \in DOMAIN cache : Includes(k, email)
    /\ cache' = [k \in {x \in DOMAIN cache : ~Includes(x, email)} |-> cache[k]]
    /\ stored' = [k \in DOMAIN stored |->
                    IF k \in DOMAIN cache /\ Includes(k, email)
                    THEN [stored[k] EXCEPT !.cleared = TRUE]
                    ELSE stored[k]]
    /\ UNCHANGED <<requestQueue, timers, reqs, calls, serial>>
    /\ UNCHANGED authVars

\* An invocation of getStatus() at its first await: it has no part in
\* request(), its cache or its pending entries.
StatusAwaiting ==
    [kind |-> "status", call |-> 0, st |-> "fetch", success |-> FALSE,
     user |-> [is |-> "undefined", obj |-> <<>>], error |-> <<>>,
     from |-> FALSE]

\* getStatus(), to its first await: fetch(this.baseUrl) sends an exchange.
GetStatus ==
    /\ serial' = serial + 1
    /\ ops' = Append(ops, StatusAwaiting)
    /\ UNCHANGED <<cache, requestQueue, timers, reqs, calls, stored>>
    /\ UNCHANGED <<currentUser, localStorage, now, dashboard, intervals, ret>>

\* What getStatus() returns, once fetch and response.text() have settled:
\* online with the text of any response, whatever its status, or offline
\* with the message of the rejection.
StatusOutcome(resp) ==
    IF resp.fetch = "rejected"
        THEN [online |-> FALSE, error |-> <<"Failed to fetch">>]
    ELSE IF resp.text = "rejected"
        THEN [online |-> FALSE, error |-> <<"network error">>]
    ELSE [online |-> TRUE, error |-> <<>>]

\* getStatus() after `await fetch(this.baseUrl)`: it reads the body of the
\* response, or returns offline when fetch was rejected.
StatusFetchSettle(o, resp) ==
    /\ o \in DOMAIN ops
    /\ ops[o].kind = "status"
    /\ ops[o].st = "fetch"
    /\ ops' = [ops EXCEPT ![o] =
          IF resp.fetch = "fulfilled" THEN [@ EXCEPT !.st = "text"]
          ELSE [@ EXCEPT !.st = "done",
                         !.success = StatusOutcome(resp).online,
                         !.error = StatusOutcome(resp).error]]
    /\ UNCHANGED apiVars
    /\ UNCHANGED <<currentUser, localStorage, now, dashboard, intervals, ret>>

\* getStatus() after `await response.text()`.
StatusTextSettle(o, resp) ==
    /\ o \in DOMAIN ops
    /\ ops[o].kind = "status"
    /\ ops[o].st = "text"
    /\ resp.fetch = "fulfilled"
    /\ ops' = [ops EXCEPT ![o] =
          [@ EXCEPT !.st = "done",
                    !.success = StatusOutcome(resp).online,
                    !.error = StatusOutcome(resp).error]]
    /\ UNCHANGED apiVars
    /\ UNCHANGED <<currentUser, localStorage, now, dashboard, intervals, ret>>

\* What is left of a delay after one step of the clock.
After(left) == IF left > TickMs THEN left - TickMs ELSE 0

\* Time passes by one step. The program reads no clock: it only starts
\* timers, so the model keeps the time left to each timer, and time that
\* passes while no timer is running changes nothing the program can observe.
\* A timer that is due fires in an action of its own, at once or late.
Tick ==
    /\ \/ \E tm \in timers : tm.left > 0
       \/ \E r \in DOMAIN reqs : reqs[r].st = "sleep" /\ reqs[r].left > 0
    /\ timers' = {[tm EXCEPT !.left = After(@)] : tm \in timers}
    /\ reqs' = [r \in DOMAIN reqs |-> [reqs[r] EXCEPT !.left = After(@)]]
    /\ stored' = [k \in DOMAIN stored |-> [stored[k] EXCEPT !.left = After(@)]]
    /\ UNCHANGED <<cache, requestQueue, calls, serial>>
    /\ UNCHANGED authVars

\* The answers SpecCache draws: success, or a refusal with a message.
SomeResponses == {x \in PlainResponses : x.success \/ x.message # <<>>}

NextCache ==
    \/ \E inp \in Inputs : Len(calls) < MaxCalls /\ Request(inp)
    \/ \E r \in DOMAIN reqs, resp \in SomeResponses : FetchSettle(r, resp)
    \/ \E r \in DOMAIN reqs, resp \in SomeResponses : TextSettle(r, resp)
    \/ \E c \in DOMAIN calls : RequestResume(c)
    \/ \E c \in DOMAIN calls : QueueReturn(c)
    \/ \E tm \in timers : CacheTimeout(tm)
    \/ ClearCache
    \/ ClearUserCache(UserA)
    \/ Tick

SpecCache == Init /\ [][NextCache]_vars

NextRetry ==
    \/ \E inp \in RetryInputs : Len(calls) < MaxRetryCalls /\ Request(inp)
    \/ \E r \in DOMAIN reqs, resp \in PlainResponses : FetchSettle(r, resp)
    \/ \E r \in DOMAIN reqs, resp \in PlainResponses : TextSettle(r, resp)
    \/ \E r \in DOMAIN reqs : SleepWake(r)
    \/ \E c \in DOMAIN calls : RequestResume(c)
    \/ \E c \in DOMAIN calls : QueueReturn(c)
    \/ Tick

SpecRetry == Init /\ [][NextRetry]_vars

\* SpecLive draws a write with the default options and a write to another
\* endpoint with two attempts and a longer delay.
LiveInputs ==
    {inp \in RetryInputs : inp.retries = 0 \/ inp.retryDelay # 0}

\* The answers SpecLive draws: success, no network, a refusal.
LiveResponses ==
    {x \in PlainResponses :
        x.success \/ x.fetch = "rejected" \/ x.message # <<>>}

NextLive ==
    \/ \E inp \in LiveInputs : Len(calls) < MaxLiveCalls /\ Request(inp)
    \/ \E r \in DOMAIN reqs, resp \in LiveResponses : FetchSettle(r, resp)
    \/ \E r \in DOMAIN reqs, resp \in LiveResponses : TextSettle(r, resp)
    \/ \E r \in DOMAIN reqs : SleepWake(r)
    \/ \E c \in DOMAIN calls : RequestResume(c)
    \/ \E c \in DOMAIN calls : QueueReturn(c)
    \/ Tick

SpecLive == Init /\ [][NextLive]_vars

\* SpecLive, with what the event loop and the transport give: every
\* exchange is answered, time passes, a timer that is due fires, and the
\* reaction to a settled promise runs.
FairSpecLive ==
    /\ SpecLive
    /\ WF_vars(Tick)
    /\ \A r \in 1..MaxLiveCalls :
          /\ WF_vars(\E resp \in LiveResponses : FetchSettle(r, resp))
          /\ WF_vars(\E resp \in LiveResponses : TextSettle(r, resp))
          /\ WF_vars(SleepWake(r))
    /\ \A c \in 1..MaxLiveCalls :
          /\ WF_vars(RequestResume(c))
          /\ WF_vars(QueueReturn(c))

(* ------------------------- the global API ----------------------------- *)

\* The request interceptor of the global API, before it calls the request()
\* of the class: data.email = userEmail if userEmail && !data.email
Intercepted(inp) ==
    LET userEmail == GetItem("userEmail")
    IN  IF /\ userEmail # <<>>
           /\ ~(Has(inp.data, "email") /\ ~Falsy(Get(inp.data, "email")))
        THEN [inp EXCEPT !.data = Put(@, "email", userEmail)]
        ELSE inp

\* The arguments the methods of ApiService pass to request().
loginUser(email) ==
    [ endpoint |-> <<"user.login">>, data |-> << <<"email", email>> >>,
      method |-> <<>>, cacheKey |-> <<>>, cacheTime |-> 0,
      retries |-> 0, retryDelay |-> 0 ]

registerUser(userData) ==
    [ endpoint |-> <<"user.register">>, data |-> userData,
      method |-> <<>>, cacheKey |-> <<>>, cacheTime |-> 0,
      retries |-> 0, retryDelay |-> 0 ]

getUserProfile(email) ==
    [ endpoint |-> <<"user.profile">>, data |-> << <<"email", email>> >>,
      method |-> <<"GET">>, cacheKey |-> <<"profile_">> \o email,
      cacheTime |-> 60000, retries |-> 0, retryDelay |-> 0 ]

getUserStats(email) ==
    [ endpoint |-> <<"post.stats">>, data |-> << <<"email", email>> >>,
      method |-> <<"GET">>, cacheKey |-> <<"stats_">> \o email,
      cacheTime |-> 30000, retries |-> 0, retryDelay |-> 0 ]

schedulePost(postData) ==
    [ endpoint |-> <<"post.create">>, data |-> postData,
      method |-> <<>>, cacheKey |-> <<>>, cacheTime |-> 0,
      retries |-> 0, retryDelay |-> 0 ]

\* JSON.stringify(filters) for an object of number members.
RECURSIVE StringifyNumberFields(_)
StringifyNumberFields(data) ==
    IF data = <<>> THEN <<>>
    ELSE Quote(<<data[1][1]>>) \o <<":">> \o data[1][2]
         \o (IF Len(data) > 1 THEN <<",">> ELSE <<>>)
         \o StringifyNumberFields(Tail(data))

saveToken(tokenData) ==
    [ endpoint |-> <<"token.save">>, data |-> tokenData,
      method |-> <<>>, cacheKey |-> <<>>, cacheTime |-> 0,
      retries |-> 0, retryDelay |-> 0 ]

getUserTokens(email) ==
    [ endpoint |-> <<"token.list">>, data |-> << <<"email", email>> >>,
      method |-> <<"GET">>, cacheKey |-> <<"tokens_">> \o email,
      cacheTime |-> 30000, retries |-> 0, retryDelay |-> 0 ]

getUserPosts(email, filters) ==
    [ endpoint |-> <<"post.list">>,
      data |-> << <<"email", email>> >> \o filters,
      method |-> <<"GET">>,
      cacheKey |-> <<"posts_">> \o email \o <<"_", "{">>
                      \o StringifyNumberFields(filters) \o <<"}">>,
      cacheTime |-> 30000, retries |-> 0, retryDelay |-> 0 ]

\* The message of the TypeError a member read of undefined or null throws.
TypeErrorMessage == <<"Cannot read properties of undefined">>

\* What the catch block of the response interceptor does with an error:
\* it notifies the user for three kinds of message and throws the error on.
Rethrown(error) == error

\* API._makeRequest, the response interceptor, up to its first await:
\* originalRequest is the bound request(), which has no _makeRequest, so
\* reading apply of it throws a TypeError inside the try block before the
\* method of the class is called; the catch block throws it on and the
\* promise is rejected. No pass of the loop is made and nothing is sent.
API_makeRequest(inp, n) ==
    [ makeRequest(inp, n) EXCEPT
        !.attempt = 0, !.st = "rejected", !.sent = 0, !.xid = 0,
        !.out = Rethrown([error |-> TypeErrorMessage]) ]

\* API.request, the request() of the global API as api.js leaves it: the
\* request interceptor, then request() of the class, whose
\* this._makeRequest is the response interceptor.
API_requestVia(api, inp) ==
    requestVia(api, Intercepted(inp),
               API_makeRequest(Intercepted(inp), api.serial + 1))

\* One call of a method of the global API.
API_request(inp) == Becomes(API_requestVia(Service, inp))

\* A page calls a method of the global API.
GlobalRequest(inp) == API_request(inp) /\ UNCHANGED authVars

\* The parsed body a result came from: the answer to the exchange it is
\* told apart by.
BodyOf(result) ==
    reqs[CHOOSE r \in DOMAIN reqs :
            reqs[r].st = "resolved" /\ reqs[r].xid = result.data].settledBy

\* result.success of what an awaited request() gave; reading it of
\* undefined throws.
ResultSuccess(result) == "success" \in DOMAIN result /\ result.success

(* ------------------------------ auth.js ------------------------------- *)

\* Whether the constructor of AuthService has run.
Constructed == intervals # <<>>

\* The timers _setupAutoRefresh() starts: the refresh every 5 minutes and
\* the expiry check every minute.
setupAutoRefresh ==
    << [kind |-> "refresh", left |-> RefreshPeriod],
       [kind |-> "check", left |-> CheckPeriod] >>

\* An expiry test that counts the instant of expiry as expired.
isSessionExpiredAtExpiry ==
    LET expiry == GetItem("sessionExpiry")
    IN  IF expiry = <<>> THEN TRUE
        ELSE ~GreaterThan(ParseInt(expiry), now)

\* _isSessionExpired()
isSessionExpired ==
    LET expiry == GetItem("sessionExpiry")
    IN  IF expiry = <<>> THEN TRUE
        ELSE GreaterThan(now, ParseInt(expiry))

\* isAuthenticated()
isAuthenticated == Truthy(currentUser) /\ ~isSessionExpired

\* _setUserSession(user): the values it leaves, and whether it threw on
\* reading user.email, which it does after it has set this.currentUser.
setUserSession(user) ==
    IF ~Truthy(user)
    THEN [currentUser |-> user, localStorage |-> localStorage, threw |-> TRUE]
    ELSE [currentUser |-> user,
          localStorage |->
              MapSet(MapSet(MapSet(localStorage,
                  "userEmail", Get(user.obj, "email")),
                  "userData", Stringify(user.obj)),
                  "sessionExpiry", NumberToString(now + SessionTimeout)),
          threw |-> FALSE]

\* A _loadUserFromStorage that restores the user whenever userData is
\* stored.
loadUserFromStorageAnyEntry ==
    IF GetItem("userData") # <<>>
    THEN JsonParse(GetItem("userData"))
    ELSE JsNull

\* A _loadUserFromStorage that restores nothing.
loadUserFromStorageNever == JsNull

\* _loadUserFromStorage(): the user it leaves in this.currentUser, which
\* it assigns only when the three entries are stored.
loadUserFromStorage ==
    IF /\ GetItem("userEmail") # <<>>
       /\ GetItem("userData") # <<>>
       /\ GetItem("sessionExpiry") # <<>>
    THEN JsonParse(GetItem("userData"))
    ELSE currentUser

\* A logout that leaves the stored email behind.
logoutKeepsEmail ==
    /\ currentUser' = JsNull
    /\ localStorage' = [k \in DOMAIN localStorage \ {"userData", "sessionExpiry"} |->
                            localStorage[k]]
    /\ clearCache

\* logout(): what it does to the session, the store and the cache. The
\* page it then asks the browser to load is not constructed here: the jobs
\* of this page that are queued still run.
logout ==
    /\ currentUser' = JsNull
    /\ localStorage' = [k \in DOMAIN localStorage \ SessionKeys |->
                            localStorage[k]]
    /\ clearCache

\* What requireAuth(), isAuthenticated() or the expiry check leaves in the
\* history, and what getCurrentUser() leaves there.
Returned(op, bool) == [op |-> op, bool |-> bool, user |-> JsNull]

ReturnedUser(op, user) == [op |-> op, bool |-> Truthy(user), user |-> user]

\* An init() that restores the stored user and never logs out.
initKeepsExpired ==
    /\ currentUser' = loadUserFromStorage
    /\ UNCHANGED localStorage
    /\ UNCHANGED apiVars
    /\ intervals' = intervals \o setupAutoRefresh
    /\ ret' = Returned("init", TRUE)

\* init(): load the stored user, log out if its session has expired, start
\* the two intervals. The history keeps whether the expiry check let the
\* session be.
init ==
    /\ IF isSessionExpired /\ Truthy(loadUserFromStorage)
       THEN logout
       ELSE /\ currentUser' = loadUserFromStorage
            /\ UNCHANGED localStorage
            /\ UNCHANGED apiVars
    /\ intervals' = intervals \o setupAutoRefresh
    /\ ret' = Returned("init", ~(isSessionExpired /\ Truthy(loadUserFromStorage)))

\* new AuthService(): this.currentUser = null, which it is when the page
\* is loaded, then init().
Construct ==
    /\ ~Constructed
    /\ init
    /\ UNCHANGED <<now, dashboard, ops>>

\* A page calls init() of the AuthService that was constructed: the stored
\* user is loaded over the one that is held, the expiry is checked, and two
\* more intervals are started beside those that run.
AuthInit ==
    /\ Constructed
    /\ Len(intervals) < 2 * (1 + MaxInits)
    /\ init
    /\ UNCHANGED <<now, dashboard, ops>>

\* An invocation of login, register or refreshUserData that awaits call c
\* of request(). from is history: whether the user was authenticated when
\* the invocation resumed.
Awaiting(kind, c) ==
    [kind |-> kind, call |-> c, st |-> "await", success |-> FALSE,
     user |-> JsUndefined, error |-> <<>>, from |-> FALSE]

\* A login that drops the user it holds before it asks the backend.
LoginDropsUser(email) ==
    /\ Constructed
    /\ API_request(loginUser(email))
    /\ ops' = Append(ops, Awaiting("login", Len(calls) + 1))
    /\ currentUser' = JsNull
    /\ UNCHANGED <<localStorage, now, dashboard, intervals, ret>>

\* login(email), to its await.
Login(email) ==
    /\ Constructed
    /\ API_request(loginUser(email))
    /\ ops' = Append(ops, Awaiting("login", Len(calls) + 1))
    /\ UNCHANGED <<currentUser, localStorage, now, dashboard, intervals, ret>>

\* register(userData), to its await.
Register(userData) ==
    /\ Constructed
    /\ API_request(registerUser(userData))
    /\ ops' = Append(ops, Awaiting("register", Len(calls) + 1))
    /\ UNCHANGED <<currentUser, localStorage, now, dashboard, intervals, ret>>

\* login or register after its await: a result sets the session and returns
\* success; whatever is thrown, by the request or by _setUserSession, is
\* caught and returned as a failure with its message.
AuthResume(o) ==
    /\ o \in DOMAIN ops
    /\ ops[o].kind \in {"login", "register"}
    /\ ops[o].st = "await"
    /\ calls[ops[o].call].st # "pending"
    /\ LET c == calls[ops[o].call]
           done == [ops[o] EXCEPT !.st = "done", !.from = isAuthenticated]
       IN  IF c.st = "rejected"
           THEN /\ ops' = [ops EXCEPT ![o] = [done EXCEPT !.error = c.out.error]]
                /\ UNCHANGED <<currentUser, localStorage>>
           ELSE IF ~ResultSuccess(c.out)
           THEN /\ ops' = [ops EXCEPT ![o] = [done EXCEPT !.error =
                              IF "success" \in DOMAIN c.out
                              THEN BodyOf(c.out).message
                              ELSE TypeErrorMessage]]
                /\ UNCHANGED <<currentUser, localStorage>>
           ELSE LET s == setUserSession(BodyOf(c.out).user)
                IN  /\ currentUser' = s.currentUser
                    /\ localStorage' = s.localStorage
                    /\ ops' = [ops EXCEPT ![o] =
                          IF s.threw
                          THEN [done EXCEPT !.error = TypeErrorMessage]
                          ELSE [done EXCEPT !.success = TRUE,
                                            !.user = BodyOf(c.out).user]]
    /\ UNCHANGED <<now, dashboard, intervals, ret>>
    /\ UNCHANGED apiVars

\* refreshUserData(), to its await or to its early return.
refreshUserData ==
    IF ~Truthy(currentUser)
    THEN /\ UNCHANGED ops
         /\ UNCHANGED apiVars
    ELSE /\ API_request(getUserProfile(Get(currentUser.obj, "email")))
         /\ ops' = Append(ops, Awaiting("refresh", Len(calls) + 1))

\* A page calls refreshUserData().
RefreshUserData ==
    /\ Constructed
    /\ refreshUserData
    /\ UNCHANGED <<currentUser, localStorage, now, dashboard, intervals, ret>>

\* refreshUserData() after its await: a result with success set sets the
\* session to result.profile.user; whatever is thrown, by the request, by
\* reading user of a result that has no profile or by _setUserSession, is
\* caught and logged.
RefreshResume(o) ==
    /\ o \in DOMAIN ops
    /\ ops[o].kind = "refresh"
    /\ ops[o].st = "await"
    /\ calls[ops[o].call].st # "pending"
    /\ LET c == calls[ops[o].call]
           done == [ops[o] EXCEPT !.st = "done", !.from = isAuthenticated]
       IN  IF /\ c.st = "resolved"
              /\ ResultSuccess(c.out)
              /\ Truthy(BodyOf(c.out).profile)
           THEN LET user == BodyOf(c.out).profile.user
                    s == setUserSession(user)
                IN  /\ currentUser' = s.currentUser
                    /\ localStorage' = s.localStorage
                    /\ ops' = [ops EXCEPT ![o] =
                          [done EXCEPT !.success = ~s.threw, !.user = user]]
           ELSE /\ ops' = [ops EXCEPT ![o] = done]
                /\ UNCHANGED <<currentUser, localStorage>>
    /\ UNCHANGED <<now, dashboard, intervals, ret>>
    /\ UNCHANGED apiVars

\* The refresh interval fires: refreshUserData() if isAuthenticated().
RefreshTick ==
    /\ \E i \in DOMAIN intervals :
          /\ intervals[i] = [kind |-> "refresh", left |-> 0]
          /\ intervals' = [intervals EXCEPT ![i].left = RefreshPeriod]
    /\ IF isAuthenticated
       THEN refreshUserData
       ELSE /\ UNCHANGED ops
            /\ UNCHANGED apiVars
    /\ UNCHANGED <<currentUser, localStorage, now, dashboard, ret>>

\* An expiry check that never logs out.
checkSessionExpiryIdle ==
    /\ UNCHANGED <<currentUser, localStorage>>
    /\ UNCHANGED apiVars

\* _checkSessionExpiry(): log out a user whose session has expired.
checkSessionExpiry ==
    IF isSessionExpired /\ Truthy(currentUser)
    THEN logout
    ELSE /\ UNCHANGED <<currentUser, localStorage>>
         /\ UNCHANGED apiVars

\* The expiry check interval fires.
ExpiryTick ==
    /\ \E i \in DOMAIN intervals :
          /\ intervals[i] = [kind |-> "check", left |-> 0]
          /\ intervals' = [intervals EXCEPT ![i].left = CheckPeriod]
    /\ checkSessionExpiry
    /\ ret' = Returned("expiryCheck", ~(isSessionExpired /\ Truthy(currentUser)))
    /\ UNCHANGED <<now, dashboard, ops>>

\* A page calls logout().
Logout ==
    /\ Constructed
    /\ logout
    /\ UNCHANGED <<now, dashboard, intervals, ops, ret>>

\* A page calls isAuthenticated().
IsAuthenticated ==
    /\ Constructed
    /\ ret' = Returned("isAuthenticated", isAuthenticated)
    /\ UNCHANGED <<currentUser, localStorage, now, dashboard, intervals, ops>>
    /\ UNCHANGED apiVars

\* getCurrentUser()
getCurrentUser == currentUser

\* A page calls getCurrentUser().
GetCurrentUser ==
    /\ Constructed
    /\ ret' = ReturnedUser("getCurrentUser", getCurrentUser)
    /\ UNCHANGED <<currentUser, localStorage, now, dashboard, intervals, ops>>
    /\ UNCHANGED apiVars

\* A requireAuth() that returns false without logging out.
RequireAuthNoLogout ==
    /\ Constructed
    /\ UNCHANGED <<currentUser, localStorage>>
    /\ UNCHANGED apiVars
    /\ ret' = Returned("requireAuth", isAuthenticated)
    /\ UNCHANGED <<now, dashboard, intervals, ops>>

\* A page calls requireAuth(): logout() and false unless isAuthenticated().
RequireAuth ==
    /\ Constructed
    /\ IF ~isAuthenticated
       THEN logout
       ELSE /\ UNCHANGED <<currentUser, localStorage>>
            /\ UNCHANGED apiVars
    /\ ret' = Returned("requireAuth", isAuthenticated)
    /\ UNCHANGED <<now, dashboard, intervals, ops>>

\* What is left of a delay after d milliseconds.
Elapse(left, d) == IF left > d THEN left - d ELSE 0

\* Time passes by d milliseconds: Date.now() grows by d, and every timer
\* and interval has d less to wait. A timer that is due fires in an action
\* of its own, at once or late.
Advance(d) ==
    /\ now' = now + d
    /\ intervals' = [i \in DOMAIN intervals |->
                        [intervals[i] EXCEPT !.left = Elapse(@, d)]]
    /\ timers' = {[tm EXCEPT !.left = Elapse(@, d)] : tm \in timers}
    /\ reqs' = [r \in DOMAIN reqs |-> [reqs[r] EXCEPT !.left = Elapse(@, d)]]
    /\ stored' = [k \in DOMAIN stored |->
                    [stored[k] EXCEPT !.left = Elapse(@, d)]]
    /\ UNCHANGED <<cache, requestQueue, calls, serial>>
    /\ UNCHANGED <<currentUser, localStorage, ops, ret, dashboard>>

\* The steps of the clock of SpecAuth: the page is left alone for the time
\* a session lasts, so that every timer is due when a job runs again, and a
\* session is at the instant of its expiry or past it.
ClockSteps ==
    { d \in {SessionTimeout} :
        (now - StartTime) \div SessionTimeout < MaxClockSteps }

\* What localStorage can hold when a page is loaded: nothing, the session
\* of a user that expires in five minutes, that has just begun or that has
\* expired, and a session whose expiry is missing.
StoredSession(expiry) ==
    [k \in SessionKeys |->
        IF k = "userEmail" THEN UserA
        ELSE IF k = "userData" THEN Stringify(UserRecord)
        ELSE NumberToString(expiry)]

Restrict(f, keys) == [k \in keys |-> f[k]]

PersistedStores ==
    { Restrict(StoredSession(StartTime), {}),
      StoredSession(StartTime + RefreshPeriod),
      StoredSession(StartTime + SessionTimeout),
      StoredSession(StartTime - CheckPeriod),
      Restrict(StoredSession(StartTime), {"userEmail", "userData"}) }

\* The page is loaded: api.js has run, auth.js is about to construct Auth.
InitAuth ==
    /\ InitApi
    /\ currentUser = JsNull
    /\ localStorage \in PersistedStores
    /\ now = StartTime
    /\ intervals = <<>>
    /\ ops = <<>>
    /\ ret = NoRet
    /\ dashboard = JsUndefined

\* What the signup page passes to register(): the data of a user.
SignupData == { << <<"email", UserA>>, <<"name", <<"Ann">>>> >> }

NextAuth ==
    \/ Construct
    \/ AuthInit
    \/ Len(calls) < MaxAuthCalls /\ Login(UserA)
    \/ \E userData \in SignupData :
          Len(calls) < MaxAuthCalls /\ Register(userData)
    \/ \E o \in DOMAIN ops : AuthResume(o)
    \/ Len(calls) < MaxAuthCalls /\ RefreshUserData
    \/ \E o \in DOMAIN ops : RefreshResume(o)
    \/ Len(calls) < MaxAuthCalls /\ RefreshTick
    \/ ExpiryTick
    \/ Logout
    \/ RequireAuth
    \/ \E c \in DOMAIN calls : RequestResume(c)
    \/ \E d \in ClockSteps : Advance(d)

SpecAuth == InitAuth /\ [][NextAuth]_vars

\* A page that only reads the session: it is constructed over what is
\* stored, asks isAuthenticated(), getCurrentUser() and requireAuth() at
\* any time, logs out, and is left alone while the expiry check ticks.
NextRead ==
    \/ Construct
    \/ AuthInit
    \/ IsAuthenticated
    \/ GetCurrentUser
    \/ RequireAuth
    \/ ExpiryTick
    \/ Logout
    \/ \E d \in ClockSteps : Advance(d)

SpecRead == InitAuth /\ [][NextRead]_vars

\* What localStorage can hold when only a part of a session was written or
\* a part of it was removed: every choice of the three entries, of a
\* session that is running and of one that has expired.
StartupStores ==
    { Restrict(StoredSession(expiry), keys) :
        expiry \in {StartTime + RefreshPeriod, StartTime - CheckPeriod},
        keys \in SUBSET SessionKeys }

InitStartup ==
    /\ InitApi
    /\ currentUser = JsNull
    /\ localStorage \in StartupStores
    /\ now = StartTime
    /\ intervals = <<>>
    /\ ops = <<>>
    /\ ret = NoRet
    /\ dashboard = JsUndefined

\* A page that is loaded over such a store and only reads the session.
SpecStartup == InitStartup /\ [][NextRead]_vars

\* What the pages ask of the global API: a login, the profile and the
\* statistics of a user, a list of posts and a new post.
GlobalInputs ==
    { loginUser(UserA), getUserProfile(UserA), getUserStats(UserA),
      schedulePost(PayloadES) }
    \cup { inp \in Inputs : inp.cacheTime # 0 /\ inp.data = PayloadES }

\* The global API alone, as api.js leaves it: calls of its methods, the
\* continuations of request(), and getStatus(), which the interceptors
\* leave as the class defines it.
NextGlobal ==
    \/ \E inp \in GlobalInputs :
          Len(calls) < MaxPageCalls /\ GlobalRequest(inp)
    \/ \E c \in DOMAIN calls : RequestResume(c)
    \/ \E c \in DOMAIN calls : QueueReturn(c)
    \/ Len(ops) < MaxStatusCalls /\ GetStatus
    \/ \E o \in DOMAIN ops, resp \in Responses : StatusFetchSettle(o, resp)
    \/ \E o \in DOMAIN ops, resp \in Responses : StatusTextSettle(o, resp)

SpecGlobal == Init /\ [][NextGlobal]_vars

\* Whether the reaction of a creating call to its settled promise has not
\* run yet. That reaction was registered by `await requestPromise` when the
\* promise was created, so it is the first job to run once the promise
\* settles: the job that settles the promise and that reaction run in one
\* drain of the microtask queue, before any other job of the page.
Draining ==
    \E c \in DOMAIN calls :
        /\ calls[c].via = "new"
        /\ calls[c].st = "pending"
        /\ Settled(calls[c].req)

\* A job of the page (an event handler, a timer, the continuation of an
\* awaited call) calls request(): no job runs while the queue is drained.
PageRequest(inp) == ~Draining /\ Request(inp)

\* The pages call request() from their jobs, reads and writes that succeed
\* or are refused, while cached values time out.
NextSettle ==
    \/ \E inp \in Inputs : Len(calls) < MaxPageCalls /\ PageRequest(inp)
    \/ \E r \in DOMAIN reqs, resp \in SomeResponses : FetchSettle(r, resp)
    \/ \E r \in DOMAIN reqs, resp \in SomeResponses : TextSettle(r, resp)
    \/ \E c \in DOMAIN calls : RequestResume(c)
    \/ \E c \in DOMAIN calls : QueueReturn(c)
    \/ \E tm \in timers : CacheTimeout(tm)
    \/ Tick

SpecSettle == Init /\ [][NextSettle]_vars

\* The page is loaded over a store that only an AuthService has written:
\* it holds a whole session or none.
InitSession ==
    /\ InitAuth
    /\ DOMAIN localStorage \in {{}, SessionKeys}

SpecSession == InitSession /\ [][NextAuth]_vars

\* Another user than the one whose session is stored.
UserB == <<"b@x.io">>

\* What a page asks of the global API in SpecInject: a post that
\* names no user, and a post that names another user than the stored one.
InjectInputs ==
    { schedulePost(<< <<"status", <<"queued">>>> >>),
      schedulePost(<< <<"email", UserB>>, <<"status", <<"queued">>>> >>) }

\* The pages call the global API while a stored session is restored,
\* expires and is logged out.
NextInject ==
    \/ Construct
    \/ \E inp \in InjectInputs :
          Constructed /\ Len(calls) < MaxAuthCalls /\ GlobalRequest(inp)
    \/ \E c \in DOMAIN calls : RequestResume(c)
    \/ ExpiryTick
    \/ Logout
    \/ \E d \in ClockSteps : Advance(d)

SpecInject == InitAuth /\ [][NextInject]_vars

\* A page requires a session and reads the statistics of the user through
\* the global API, and the user logs out.
NextLogout ==
    \/ Construct
    \/ RequireAuth
    \/ /\ Constructed
       /\ Len(calls) < MaxPageCalls
       /\ GlobalRequest(getUserStats(UserA))
    \/ \E c \in DOMAIN calls : RequestResume(c)
    \/ \E c \in DOMAIN calls : QueueReturn(c)
    \/ Logout
    \/ \E d \in ClockSteps : Advance(d)

SpecLogout == InitAuth /\ [][NextLogout]_vars

\* Whether clearCache() or clearUserCache() has removed an entry.
SomeCleared == \E k \in DOMAIN stored : stored[k].cleared

\* Callers read two lists through an ApiService until its cache is
\* cleared and make no call after that, so whatever the cache holds after
\* the clear was requested before it.
NextLeave ==
    \/ \E inp \in {x \in Inputs : Cacheable(MethodOf(x), x.cacheTime)} :
          ~SomeCleared /\ Len(calls) < MaxPageCalls /\ Request(inp)
    \/ \E r \in DOMAIN reqs, resp \in SomeResponses : FetchSettle(r, resp)
    \/ \E r \in DOMAIN reqs, resp \in SomeResponses : TextSettle(r, resp)
    \/ \E c \in DOMAIN calls : RequestResume(c)
    \/ \E c \in DOMAIN calls : QueueReturn(c)
    \/ \E tm \in timers : CacheTimeout(tm)
    \/ ClearCache
    \/ Tick

SpecLeave == Init /\ [][NextLeave]_vars

\* The emails of three users: the email of the second, "ba@x.io", ends
\* with the email of the first, the third has no part in common with them.
UserBA == <<"b">> \o UserA
UserC == <<"c@y.io">>
Emails == {UserA, UserBA, UserC}

\* The statistics of several users are read through one ApiService and
\* cached, and the cache of one user is cleared.
NextUsers ==
    \/ \E email \in Emails :
          Len(calls) < MaxPageCalls /\ Request(getUserStats(email))
    \/ \E r \in DOMAIN reqs, resp \in {x \in PlainResponses : x.success} :
          FetchSettle(r, resp)
    \/ \E r \in DOMAIN reqs, resp \in {x \in PlainResponses : x.success} :
          TextSettle(r, resp)
    \/ \E c \in DOMAIN calls : RequestResume(c)
    \/ \E c \in DOMAIN calls : QueueReturn(c)
    \/ \E tm \in timers : CacheTimeout(tm)
    \/ \E email \in Emails : ClearUserCache(email)
    \/ \E d \in ClockSteps : Advance(d)

SpecUsers == Init /\ [][NextUsers]_vars

(* ---------------------- the dashboard (part_000) --------------------- *)

\* The period of the interval that reloads the overview: 30000
OverviewPeriod == 30000

\* One day, in milliseconds.
MsPerDay == 24 * 60 * 60 * 1000

\* new Date(v).getTime() for what a form gives as its schedule time and for
\* what toISOString() has written: null is the epoch; the text of a
\* midnight of a day of January 1970, written as an input of type
\* datetime-local writes it or as toISOString() does, is that instant (the
\* page runs in UTC); any other text is an invalid date.
DateOf(v) ==
    IF v = Null THEN 0
    ELSE IF /\ Len(v) = 4
            /\ v[1] = "1970-01-"
            /\ v[4] \in {"T00:00", "T00:00:00.000Z"}
            /\ DigitValue(v[2]) >= 0
            /\ DigitValue(v[3]) >= 0
            /\ 10 * DigitValue(v[2]) + DigitValue(v[3]) \in 1..31
    THEN (10 * DigitValue(v[2]) + DigitValue(v[3]) - 1) * MsPerDay
    ELSE NaN

\* Date.prototype.toISOString() of a midnight of a day of January 1970.
toISOString(t) ==
    LET day == (t \div MsPerDay) + 1
    IN  <<"1970-01-", Digits[(day \div 10) + 1], Digits[(day % 10) + 1],
          "T00:00:00.000Z">>

\* s.trim().length === 0
Blank(s) == \A i \in DOMAIN s : s[i] = " "

\* The object handleSchedulePost() builds from the form:
\* formData.get(name) is the string of a field, null for a field the form
\* does not have.
postDataOf(form) ==
    << <<"platform", form.platform>>,
       <<"message", form.message>>,
       <<"media_url", form.mediaUrl>>,
       <<"schedule", toISOString(DateOf(form.scheduleTime))>> >>

\* validateScheduleForm(postData)
validateScheduleForm(postData) ==
    /\ ~Falsy(Get(postData, "platform"))
    /\ ~Falsy(Get(postData, "message"))
    /\ ~Blank(Get(postData, "message"))
    /\ ~Falsy(Get(postData, "schedule"))
    /\ DateOf(Get(postData, "schedule")) # NaN
    /\ ~(DateOf(Get(postData, "schedule")) < now)

\* The object handleConnectPlatform() builds from the form.
tokenDataOf(form) ==
    << <<"platform", form.platform>>,
       <<"token", form.token>>,
       <<"page_id_chat_id", form.page_id_chat_id>> >>

\* The filters loadUserPosts() passes: { limit: 50 }
PostFilters == << <<"limit", <<"50">>>> >>

\* The Dashboard after the assignments of its constructor.
NewDashboard ==
    [is |-> "object", obj |-> <<>>, currentUser |-> JsNull,
     userStats |-> JsNull, posts |-> Arr(<<>>), tokens |-> Arr(<<>>)]

\* Whether init() has passed requireAuth(), read the user of Auth, bound
\* the handlers of the forms and started the interval.
Bound == Truthy(dashboard) /\ Truthy(dashboard.currentUser)

\* Whether reading length or map of v gives the member of an array; of
\* undefined or null the read throws a TypeError.
IsArray(v) == v.is = "array"

\* Whether updateOverviewStats() throws: with stats held it reads
\* this.userStats.overview.total. The page has the elements the script
\* looks up by their id.
updateOverviewStatsThrows(d) ==
    Truthy(d.userStats) /\ ~Truthy(d.userStats.overview)

\* Whether updatePlatformsList() throws: it reads this.tokens.length.
updatePlatformsListThrows(d) == ~IsArray(d.tokens)

\* Whether updatePlatformOptions() throws: it reads this.tokens.map.
updatePlatformOptionsThrows(d) == ~IsArray(d.tokens)

\* Whether no reaction to a settled request is waiting to run: neither a
\* call of request() nor the method that awaits one.
Drained ==
    /\ \A c \in DOMAIN calls :
          calls[c].st = "pending" => ~Settled(calls[c].req)
    /\ \A o \in DOMAIN ops :
          ops[o].st = "await" /\ ops[o].call > 0 =>
              calls[ops[o].call].st = "pending"

\* Whether no reaction to a settled promise is waiting to run: a job of the
\* page (the load of the page, an event, a timer) starts only then, because
\* the reactions to the promises a job settles run before the next job. A
\* handler that awaits a load, the one of its call, goes on once the load
\* has ended.
Idle ==
    /\ Drained
    /\ \A h, o \in DOMAIN ops :
          /\ ops[h].st = "reload"
          /\ ops[o].kind \in {"tokens", "posts"}
          /\ ops[o].call = ops[h].call
          => ops[o].st = "await"

\* loadInitialData(), to its await: loadOverviewData(), loadUserTokens()
\* and loadUserPosts() are called one after the other, and each calls the
\* global API before it awaits. With no user, each of them throws on
\* this.currentUser.email and catches it. user is this.currentUser.
loadInitialData(user) ==
    IF ~Truthy(user)
    THEN /\ UNCHANGED ops
         /\ UNCHANGED apiVars
    ELSE LET email == Get(user.obj, "email")
             a1 == API_requestVia(Service, getUserStats(email))
             a2 == API_requestVia(a1, getUserTokens(email))
             a3 == API_requestVia(a2, getUserPosts(email, PostFilters))
         IN  /\ Becomes(a3)
             /\ ops' = ops \o
                    << Awaiting("overview", Len(a1.calls)),
                       Awaiting("tokens", Len(a2.calls)),
                       Awaiting("posts", Len(a3.calls)) >>

\* new Dashboard(), which the page does when it is loaded, after auth.js
\* has constructed Auth: the constructor and init() to its await. Unless
\* requireAuth() passes init() returns; else it reads the user of Auth,
\* binds the handlers, starts the interval of the overview and loads the
\* data. What init() does after its await changes the page only, and what
\* it throws there nothing catches.
DashboardInit ==
    /\ Constructed
    /\ ~Truthy(dashboard)
    /\ Idle
    /\ ret' = Returned("requireAuth", isAuthenticated)
    /\ IF ~isAuthenticated
       THEN /\ logout
            /\ dashboard' = NewDashboard
            /\ UNCHANGED <<ops, intervals>>
       ELSE /\ dashboard' =
                  [NewDashboard EXCEPT !.currentUser = getCurrentUser]
            /\ loadInitialData(getCurrentUser)
            /\ intervals' = Append(intervals,
                  [kind |-> "overview", left |-> OverviewPeriod])
            /\ UNCHANGED <<currentUser, localStorage>>
    /\ UNCHANGED now

\* refreshDashboard(): loadInitialData() of the Dashboard of the page.
RefreshDashboard ==
    /\ Truthy(dashboard)
    /\ Idle
    /\ loadInitialData(dashboard.currentUser)
    /\ UNCHANGED <<currentUser, localStorage, now, dashboard, intervals, ret>>

\* The interval of the overview fires: loadOverviewData() if the overview
\* is the section shown, which the user chooses.
OverviewTick(shown) ==
    /\ Idle
    /\ \E i \in DOMAIN intervals :
          /\ intervals[i] = [kind |-> "overview", left |-> 0]
          /\ intervals' = [intervals EXCEPT ![i].left = OverviewPeriod]
    /\ IF shown
       THEN /\ API_request(
                  getUserStats(Get(dashboard.currentUser.obj, "email")))
            /\ ops' = Append(ops, Awaiting("overview", Len(calls) + 1))
       ELSE /\ UNCHANGED ops
            /\ UNCHANGED apiVars
    /\ UNCHANGED <<currentUser, localStorage, now, dashboard, ret>>

\* The Dashboard once a load has kept the member of that name of a result
\* with success set.
Loaded(kind, body) ==
    IF kind = "overview" THEN [dashboard EXCEPT !.userStats = body.stats]
    ELSE IF kind = "tokens" THEN [dashboard EXCEPT !.tokens = body.tokens]
    ELSE [dashboard EXCEPT !.posts = body.posts]

\* loadOverviewData(), loadUserTokens() or loadUserPosts() after its await:
\* of a result with success set it keeps the stats or the list and updates
\* the page, which throws where the stats have no overview or the tokens
\* are no list; whatever is thrown is caught and logged.
LoadResume(o) ==
    /\ o \in DOMAIN ops
    /\ ops[o].kind \in {"overview", "tokens", "posts"}
    /\ ops[o].st = "await"
    /\ calls[ops[o].call].st # "pending"
    /\ LET c == calls[ops[o].call]
           kind == ops[o].kind
           ok == c.st = "resolved" /\ ResultSuccess(c.out)
           d == IF ok THEN Loaded(kind, BodyOf(c.out)) ELSE dashboard
           threw == /\ ok
                    /\ \/ kind = "overview" /\ updateOverviewStatsThrows(d)
                       \/ kind = "tokens" /\ updatePlatformsListThrows(d)
       IN  /\ dashboard' = d
           /\ ops' = [ops EXCEPT ![o] =
                 [@ EXCEPT
                    !.st = "done",
                    !.from = isAuthenticated,
                    !.success = ok,
                    !.error = IF c.st = "rejected" THEN c.out.error
                              ELSE IF "success" \notin DOMAIN c.out \/ threw
                              THEN TypeErrorMessage
                              ELSE <<>>]]
    /\ UNCHANGED <<currentUser, localStorage, now, intervals, ret>>
    /\ UNCHANGED apiVars

\* handleSchedulePost(event), to its await or to its return: toISOString()
\* throws on an invalid date; a form that validateScheduleForm() refuses is
\* not sent; else postData is passed to the global API. ret is history:
\* whether the form was valid.
HandleSchedulePost(form) ==
    /\ Bound
    /\ Idle
    /\ IF DateOf(form.scheduleTime) = NaN
       THEN /\ ret' = Returned("handleSchedulePost", FALSE)
            /\ UNCHANGED ops
            /\ UNCHANGED apiVars
       ELSE IF ~validateScheduleForm(postDataOf(form))
       THEN /\ ret' = Returned("validateScheduleForm", FALSE)
            /\ UNCHANGED ops
            /\ UNCHANGED apiVars
       ELSE /\ ret' = Returned("validateScheduleForm", TRUE)
            /\ API_request(schedulePost(postDataOf(form)))
            /\ ops' = Append(ops, Awaiting("schedule", Len(calls) + 1))
    /\ UNCHANGED <<currentUser, localStorage, now, dashboard, intervals>>

\* handleConnectPlatform(event), to its await: tokenData is passed to the
\* global API as the form gives it.
HandleConnectPlatform(form) ==
    /\ Bound
    /\ Idle
    /\ API_request(saveToken(tokenDataOf(form)))
    /\ ops' = Append(ops, Awaiting("connect", Len(calls) + 1))
    /\ UNCHANGED <<currentUser, localStorage, now, dashboard, intervals, ret>>

\* The list a handler loads again when its request has succeeded:
\* loadUserPosts() after a post.create, loadUserTokens() after a
\* token.save.
ReloadOf(kind, email) ==
    IF kind = "schedule" THEN getUserPosts(email, PostFilters)
    ELSE getUserTokens(email)

\* handleSchedulePost() or handleConnectPlatform() after an await.
\* After the await of its request: on a result with success set
\* handleSchedulePost() calls initializeScheduleForm(), whose
\* updatePlatformOptions() throws where the tokens are no list; then the
\* handler calls loadUserPosts() or loadUserTokens(), which calls the global
\* API before the job ends, and awaits it.
\* After the await of that load, which is after every load the request has
\* settled has gone on: handleConnectPlatform() calls
\* updatePlatformOptions(), and the handler ends.
\* Whatever is thrown is caught and shown.
HandlerResume(o) ==
    /\ o \in DOMAIN ops
    /\ ops[o].kind \in {"schedule", "connect"}
    /\ \/ ops[o].st = "await" /\ calls[ops[o].call].st # "pending"
       \/ /\ ops[o].st = "reload"
          /\ \E l \in DOMAIN ops :
                /\ ops[l].kind \in {"tokens", "posts"}
                /\ ops[l].call = ops[o].call
                /\ ops[l].st = "done"
          /\ Drained
    /\ LET c == calls[ops[o].call]
           done == [ops[o] EXCEPT !.st = "done", !.from = isAuthenticated]
       IN  IF ops[o].st = "reload"
           THEN /\ ops' = [ops EXCEPT ![o] = [@ EXCEPT
                      !.st = "done",
                      !.error = IF /\ ops[o].kind = "connect"
                                   /\ updatePlatformOptionsThrows(dashboard)
                                THEN TypeErrorMessage
                                ELSE <<>>]]
                /\ UNCHANGED apiVars
           ELSE IF ~(c.st = "resolved" /\ ResultSuccess(c.out))
           THEN /\ ops' = [ops EXCEPT ![o] = [done EXCEPT !.error =
                              IF c.st = "rejected" THEN c.out.error
                              ELSE IF "success" \notin DOMAIN c.out
                              THEN TypeErrorMessage
                              ELSE <<>>]]
                /\ UNCHANGED apiVars
           ELSE IF /\ ops[o].kind = "schedule"
                   /\ updatePlatformOptionsThrows(dashboard)
           THEN /\ ops' = [ops EXCEPT ![o] =
                      [done EXCEPT !.success = TRUE,
                                   !.error = TypeErrorMessage]]
                /\ UNCHANGED apiVars
           ELSE /\ API_request(ReloadOf(ops[o].kind,
                      Get(dashboard.currentUser.obj, "email")))
                /\ ops' = Append(
                      [ops EXCEPT ![o] =
                          [done EXCEPT !.st = "reload",
                                       !.success = TRUE,
                                       !.call = Len(calls) + 1]],
                      Awaiting(IF ops[o].kind = "schedule"
                               THEN "posts" ELSE "tokens",
                               Len(calls) + 1))
    /\ UNCHANGED <<currentUser, localStorage, now, dashboard, intervals, ret>>

\* The schedule forms a user submits: one for the day after the page is
\* loaded, one for the day before it, one without a schedule time, one
\* whose schedule time is no date, and one without a message.
ScheduleForms ==
    { [platform |-> <<"telegram">>, message |-> <<"hello">>,
       mediaUrl |-> <<>>, scheduleTime |-> <<"1970-01-", "0", "3", "T00:00">>],
      [platform |-> <<"telegram">>, message |-> <<"hello">>,
       mediaUrl |-> <<>>, scheduleTime |-> <<"1970-01-", "0", "1", "T00:00">>],
      [platform |-> <<"telegram">>, message |-> <<"hello">>,
       mediaUrl |-> Null, scheduleTime |-> Null],
      [platform |-> <<"telegram">>, message |-> <<"hello">>,
       mediaUrl |-> <<>>, scheduleTime |-> <<>>],
      [platform |-> <<"telegram">>, message |-> <<" ">>,
       mediaUrl |-> <<>>, scheduleTime |-> <<"1970-01-", "0", "3", "T00:00">>] }

\* The connection forms a user submits: with the chat of the bot, and
\* without that field.
ConnectionForms ==
    { [platform |-> <<"telegram">>, token |-> <<"t0">>,
       page_id_chat_id |-> <<"-100123">>],
      [platform |-> <<"telegram">>, token |-> <<"t0">>,
       page_id_chat_id |-> Null] }

\* The dashboard page: auth.js constructs Auth over what is stored, the
\* page constructs its Dashboard, and the user submits forms, refreshes,
\* leaves the page alone and logs out.
NextReload ==
    \/ Construct
    \/ DashboardInit
    \/ Len(ops) + 3 <= MaxDashOps /\ RefreshDashboard
    \/ \E shown \in BOOLEAN : Len(ops) < MaxDashOps /\ OverviewTick(shown)
    \/ \E form \in ScheduleForms :
          Len(ops) + 2 <= MaxDashOps /\ HandleSchedulePost(form)
    \/ \E form \in ConnectionForms :
          Len(ops) + 2 <= MaxDashOps /\ HandleConnectPlatform(form)
    \/ \E o \in DOMAIN ops : LoadResume(o)
    \/ \E o \in DOMAIN ops : HandlerResume(o)
    \/ \E c \in DOMAIN calls : RequestResume(c)
    \/ Idle /\ Logout
    \/ \E d \in ClockSteps : Idle /\ Advance(d)

SpecReload == InitAuth /\ [][NextReload]_vars

(* ============================== claims ================================ *)

InFlightReqs == {r \in DOMAIN reqs : ~Settled(r)}

\* C1: for every key there is at most one pending entry and at most one
\* retry loop in flight (in a transport exchange or in a backoff wait), and
\* the pending entry of a key is that loop, however request() calls
\* interleave with it.
C1_OneLoopPerKey ==
    /\ \A r1, r2 \in InFlightReqs : reqs[r1].key = reqs[r2].key => r1 = r2
    /\ \A r \in InFlightReqs :
          /\ reqs[r].key \in DOMAIN requestQueue
          /\ requestQueue[reqs[r].key] = r
    /\ \A k \in DOMAIN requestQueue : reqs[requestQueue[k]].key = k

\* A call arrived while the first call of its key was waiting between two
\* attempts, and that loop is in flight again.
C1_Witness ==
    \E c \in DOMAIN calls :
        /\ calls[c].busy.st = "sleep"
        /\ calls[c].via = "queue"
        /\ reqs[calls[c].req].st = "fetch"
        /\ reqs[calls[c].req].attempt = 2

RECURSIVE SumSent(_)
\* The number of exchanges the first n retry loops have sent.
SumSent(n) == IF n = 0 THEN 0 ELSE reqs[n].sent + SumSent(n - 1)

\* C2: a call made while a call of its key is still in flight starts no
\* retry loop and no exchange of its own: it gets the promise of that call
\* and settles as that call does, by the same result or by the same failure;
\* a loop whose first answer is a success has sent exactly one exchange.
C2_Coalesced ==
    /\ \A c \in DOMAIN calls :
          calls[c].busy.id # 0 /\ calls[c].via # "cache" =>
              calls[c].via = "queue" /\ calls[c].req = calls[c].busy.id
    /\ \A c \in DOMAIN calls :
          calls[c].via = "queue" =>
              LET r == calls[c].req
                  o == Creator(r)
              IN  /\ o < c
                  /\ calls[o].key = calls[c].key
                  /\ reqs[r].key = calls[c].key
                  /\ calls[c].st # "pending" =>
                        /\ calls[c].st = reqs[r].st
                        /\ calls[c].out = reqs[r].out
                        /\ calls[o].st = calls[c].st
                        /\ calls[o].out = calls[c].out
    /\ Len(reqs) = Cardinality({c \in DOMAIN calls : calls[c].via = "new"})
    /\ serial = SumSent(Len(reqs))
    /\ \A r \in DOMAIN reqs :
          reqs[r].st = "resolved" /\ reqs[r].answers = 1 => reqs[r].sent = 1

\* Two calls of one key, the second made during the exchange of the first,
\* have both resolved with the one body of the one exchange.
C2_Witness ==
    \E c1, c2 \in DOMAIN calls :
        /\ c1 < c2
        /\ calls[c1].via = "new" /\ calls[c2].via = "queue"
        /\ calls[c2].busy.st = "fetch"
        /\ calls[c1].st = "resolved" /\ calls[c2].st = "resolved"
        /\ calls[c1].out = calls[c2].out
        /\ serial = 1

\* The retry budget of a loop, from the options as the caller gave them.
Budget(r) == IF reqs[r].opt.retries = 0 THEN 3 ELSE reqs[r].opt.retries

\* The base delay of a loop, from the options as the caller gave them.
BaseDelay(r) ==
    IF reqs[r].opt.retryDelay = 0 THEN 1000 ELSE reqs[r].opt.retryDelay

\* The message of the failure an answer stands for.
CauseText(resp) ==
    IF resp.fetch = "rejected" THEN <<"Failed to fetch">>
    ELSE IF ~resp.ok THEN <<"HTTP ", resp.status, ": ", resp.statusText>>
    ELSE IF resp.text = "rejected" THEN <<"network error">>
    ELSE IF ~resp.json THEN <<"Invalid JSON response from server">>
    ELSE IF resp.message # <<>> THEN resp.message
    ELSE <<"Request failed">>

\* C3: a loop with budget m (3 when options.retries is omitted) never sends
\* more than m exchanges; it rejects only after m exchanges and m failed
\* answers, with an error that names m and the message of the last failure;
\* a loop that is waiting to retry has attempts left.
C3_Exhaustion ==
    \A r \in DOMAIN reqs :
        LET m == Budget(r)
        IN  /\ reqs[r].sent <= m
            /\ reqs[r].answers <= m
            /\ reqs[r].st = "sleep" => reqs[r].answers < m
            /\ reqs[r].st = "rejected" =>
                  /\ reqs[r].sent = m
                  /\ reqs[r].answers = m
                  /\ reqs[r].out =
                        [error |-> <<"API request failed after ", ToString(m),
                                     " attempts: ">>
                                   \o CauseText(reqs[r].settledBy)]

\* A call without options.retries was rejected after three exchanges.
C3_Witness ==
    \E r \in DOMAIN reqs :
        /\ reqs[r].opt.retries = 0
        /\ reqs[r].st = "rejected"
        /\ reqs[r].sent = 3
        /\ calls[Creator(r)].st = "rejected"

\* The answers that are a success: delivered, 2xx, read, JSON, success
\* true.
Good(resp) ==
    /\ resp.fetch = "fulfilled" /\ resp.ok /\ resp.text = "fulfilled"
    /\ resp.json /\ resp.success

\* C5: a call resolves only with a body whose success indicator is true; an
\* answer of any other kind (no answer, non-2xx, a body that cannot be read
\* or is not JSON, success false)
\* uses up one attempt of the same budget, and a call that the backend
\* refused with a message is rejected with that message.
C5_SuccessOnly ==
    /\ \A r \in DOMAIN reqs :
          /\ reqs[r].answers =
                (IF reqs[r].st \in {"fetch", "text"} THEN reqs[r].attempt - 1
                 ELSE reqs[r].attempt)
          /\ reqs[r].st = "resolved" =>
                /\ Good(reqs[r].settledBy)
                /\ reqs[r].out = [success |-> TRUE, data |-> reqs[r].xid]
          /\ reqs[r].st = "rejected" =>
                /\ ~Good(reqs[r].settledBy)
                /\ reqs[r].answers = Budget(r)
                /\ reqs[r].settledBy.json /\ reqs[r].settledBy.message # <<>> =>
                      reqs[r].out.error =
                          <<"API request failed after ", ToString(Budget(r)),
                            " attempts: ">> \o reqs[r].settledBy.message
    /\ \A c \in DOMAIN calls :
          calls[c].st = "resolved" =>
              "success" \in DOMAIN calls[c].out /\ calls[c].out.success = TRUE

\* A call with a budget of 2 was rejected with the message of the backend
\* after two answers.
C5_Witness ==
    \E r \in DOMAIN reqs :
        /\ reqs[r].st = "rejected"
        /\ reqs[r].opt.retries = 2
        /\ reqs[r].answers = 2
        /\ reqs[r].settledBy.json
        /\ reqs[r].settledBy.message = <<"Invalid credentials">>
        /\ calls[Creator(r)].st = "rejected"
        /\ calls[Creator(r)].out.error[Len(calls[Creator(r)].out.error)]
               = "Invalid credentials"

\* The waits of a loop are the base delay doubled after every failure.
C4_Waits ==
    \A r \in DOMAIN reqs :
        /\ Len(reqs[r].waits) =
              (IF reqs[r].st = "sleep" THEN reqs[r].attempt
               ELSE reqs[r].attempt - 1)
        /\ \A k \in 1..Len(reqs[r].waits) :
              reqs[r].waits[k] = BaseDelay(r) * 2 ^ (k - 1)
        /\ reqs[r].st = "sleep" =>
              /\ reqs[r].attempt < Budget(r)
              /\ reqs[r].left <= reqs[r].waits[reqs[r].attempt]
        /\ reqs[r].st = "rejected" =>
              /\ Len(reqs[r].waits) = Budget(r) - 1
              /\ reqs[r].left = 0
        /\ /\ reqs[r].opt = [retries |-> 0, retryDelay |-> 0]
           /\ reqs[r].st = "resolved"
           /\ reqs[r].attempt = 3
           => reqs[r].waits = <<1000, 2000>>

\* A loop that waits holds back no loop of another key: the answer to the
\* exchange of another loop is handled while it waits.
C4_OthersProgress ==
    \A r, r2 \in DOMAIN reqs :
        /\ reqs[r].st = "sleep" /\ reqs[r].left > 0
        /\ reqs[r2].st \in {"fetch", "text"}
        => \A resp \in Responses :
              IF reqs[r2].st = "fetch" THEN ENABLED FetchSettle(r2, resp)
              ELSE ReadsBody(resp) => ENABLED TextSettle(r2, resp)

\* C4: after the k-th failed attempt of a loop with attempts left, the loop
\* waits baseDelay * 2^(k-1) and sends attempt k+1 only when that time is
\* over; it waits nothing after its last attempt; with the default options
\* and two failures before a success the waits are 1000 then 2000; a wait
\* suspends its own loop only.
C4_Backoff ==
    /\ [](C4_Waits /\ C4_OthersProgress)
    /\ [][\A r \in DOMAIN reqs :
             reqs[r].st = "sleep" /\ reqs'[r].st # "sleep" =>
                 reqs[r].left = 0 /\ reqs'[r].attempt = reqs[r].attempt + 1]_vars

\* A call with the default options succeeded on its third attempt after
\* waits of 1000 and 2000, and a call of another key, made later, resolved.
C4_Witness ==
    \E r, r2 \in DOMAIN reqs :
        /\ reqs[r].opt = [retries |-> 0, retryDelay |-> 0]
        /\ reqs[r].st = "resolved"
        /\ reqs[r].attempt = 3
        /\ reqs[r].waits = <<1000, 2000>>
        /\ r < r2
        /\ reqs[r2].key # reqs[r].key
        /\ reqs[r2].st = "resolved"
        /\ reqs[r2].xid < reqs[r].xid

\* C6: every call of request(), the one that started the loop or one that
\* got its promise, settles in the end, when every exchange is answered and
\* every timer fires.
C6_Settles ==
    \A c \in 1..MaxLiveCalls :
        (c \in DOMAIN calls) ~> (c \in DOMAIN calls /\ calls[c].st # "pending")

\* A call that got the promise of a loop that was waiting to retry has been
\* rejected when the budget of that loop ran out.
C6_Witness ==
    \E c \in DOMAIN calls :
        /\ calls[c].via = "queue"
        /\ calls[c].busy.st = "sleep"
        /\ calls[c].st = "rejected"

\* C7: while the time to live of the value that a successful GET call
\* with cacheTime cached is running and nothing has cleared the cache, a
\* GET call of that key is answered with that value at once: it resolves
\* with the value of the earlier call, starts no retry loop, registers no
\* pending entry and causes no exchange.
C7_CacheHit ==
    /\ \A c \in DOMAIN calls :
          calls[c].fresh # 0 /\ calls[c].method = <<"GET">> =>
              /\ calls[c].via = "cache"
              /\ calls[c].st = "resolved"
              /\ calls[calls[c].fresh].st = "resolved"
              /\ calls[c].out = calls[calls[c].fresh].out
    /\ \A c \in DOMAIN calls : calls[c].via = "cache" => calls[c].req = 0
    /\ Len(reqs) = Cardinality({c \in DOMAIN calls : calls[c].via = "new"})
    /\ serial = SumSent(Len(reqs))
    /\ \A k \in DOMAIN requestQueue :
          \E c \in DOMAIN calls :
              calls[c].via = "new" /\ calls[c].req = requestQueue[k]

\* C8 as claimed: no call is answered from the cache with an entry whose time
\* to live is over, whether or not its eviction timer has fired.
C8_NoStaleHit ==
    \A c \in DOMAIN calls : calls[c].via = "cache" => ~calls[c].stale

\* The members of a payload, whatever their order.
Members(data) == {data[i] : i \in DOMAIN data}

\* C9 as claimed: two calls of one operation whose payloads have the same
\* members, in whatever order, have the same key.
C9_KeyOrderFree ==
    \A c1, c2 \in DOMAIN calls :
        /\ calls[c1].endpoint = calls[c2].endpoint
        /\ Members(calls[c1].data) = Members(calls[c2].data)
        => calls[c1].key = calls[c2].key

\* Every entry of the cache is the result of a GET call that resolved, and
\* no call but a GET is answered from the cache.
C10_Entries ==
    /\ \A c \in DOMAIN calls :
          calls[c].via = "cache" => calls[c].method = <<"GET">>
    /\ \A k \in DOMAIN cache :
          /\ "success" \in DOMAIN cache[k] /\ cache[k].success = TRUE
          /\ k \in DOMAIN stored
          /\ stored[k].ttl > 0
          /\ LET c == stored[k].by
             IN  /\ calls[c].method = <<"GET">>
                 /\ calls[c].via = "new"
                 /\ calls[c].st = "resolved"
                 /\ calls[c].key = k
                 /\ calls[c].out = cache[k]

\* C10: an entry is put in the cache, or replaced, only in the step in which
\* a GET call with cacheTime resolves, and it is the result of that call; a
\* call of another method and a call that fails add and replace nothing, and
\* a call of another method is never answered from the cache.
C10_OnlyCacheableSuccess ==
    /\ []C10_Entries
    /\ [][\A k \in DOMAIN cache' :
             (k \notin DOMAIN cache \/ cache'[k] # cache[k]) =>
                 \E c \in DOMAIN calls :
                     /\ calls[c].st = "pending" /\ calls'[c].st = "resolved"
                     /\ calls[c].method = <<"GET">>
                     /\ calls[c].cacheTime > 0
                     /\ calls[c].key = k
                     /\ cache'[k] = calls'[c].out]_vars

\* A POST call made while the cache held a value under its key has resolved
\* with the body of an exchange of its own, and the cache holds the value it
\* held; a GET call with cacheTime that failed has cached nothing.
C10_Witness ==
    /\ \E c \in DOMAIN calls :
          /\ calls[c].method = <<"POST">>
          /\ calls[c].fresh # 0
          /\ calls[c].via = "new"
          /\ calls[c].st = "resolved"
          /\ calls[c].key \in DOMAIN cache
          /\ cache[calls[c].key] = calls[calls[c].fresh].out
          /\ cache[calls[c].key] # calls[c].out
    /\ \E c \in DOMAIN calls :
          /\ calls[c].method = <<"GET">>
          /\ calls[c].st = "rejected"
          /\ calls[c].key \notin DOMAIN cache

(* ------------------------- claims on auth.js -------------------------- *)

\* The times a stored expiry can stand for.
ExpiryTimes ==
    { StartTime + RefreshPeriod, StartTime - CheckPeriod }
    \cup { StartTime + k * SessionTimeout : k \in 0..(MaxClockSteps + 2) }

\* Whether the three entries of a session are stored and the time has not
\* passed the expiry they give.
SessionStored ==
    /\ SessionKeys \subseteq DOMAIN localStorage
    /\ \E n \in ExpiryTimes :
          NumberToString(n) = localStorage["sessionExpiry"] /\ now <= n

\* Whether the caller of request() named a user in the payload.
Supplied(data) == Has(data, "email") /\ Get(data, "email") # <<>>

\* C11: the payload request() receives from the interceptor is the payload
\* of the caller with the email of the session added exactly when the
\* caller named no user and a session exists; with no session (nothing
\* stored, a stored session that has expired or that is only partly
\* present) and with a user named by the caller it is the payload as given.
C11_InjectIffSession ==
    [][\A inp \in InjectInputs :
          GlobalRequest(inp) =>
              calls'[Len(calls) + 1].data =
                  IF ~Supplied(inp.data) /\ SessionStored
                  THEN Put(inp.data, "email", localStorage["userEmail"])
                  ELSE inp.data]_vars

\* The invocations of login and register.
AuthOps == {o \in DOMAIN ops : ops[o].kind \in {"login", "register"}}

\* The user in the body that settled the request an invocation awaited.
BackendUser(o) == reqs[calls[ops[o].call].req].settledBy.user

\* The user of the profile in the body that settled the request a refresh
\* awaited.
BackendProfileUser(o) == reqs[calls[ops[o].call].req].settledBy.profile.user

\* Whether the request an invocation awaited was failed by the transport
\* or the backend: every attempt of its budget was sent and answered.
FailedByBackend(o) ==
    LET r == reqs[calls[ops[o].call].req]
    IN  r.st = "rejected" /\ r.sent = r.maxRetries /\ r.answers = r.sent

\* C12: a login or register succeeds unless the transport or the backend
\* fails its request, and when it returns success, whatever the state was,
\* isAuthenticated() is true, the current user is the user the backend
\* gave, and the three entries are stored: the email of that user, that
\* user as JSON, and the time of the success plus sessionTimeout.
C12_SuccessActivates ==
    [][\A o \in AuthOps :
          ops[o].st = "await" /\ ops'[o].st = "done" =>
              IF ops'[o].success
              THEN /\ isAuthenticated'
                   /\ currentUser' = BackendUser(o)
                   /\ SessionKeys \subseteq DOMAIN localStorage'
                   /\ localStorage'["userEmail"] =
                          Get(BackendUser(o).obj, "email")
                   /\ localStorage'["userData"] =
                          Stringify(BackendUser(o).obj)
                   /\ localStorage'["sessionExpiry"] =
                          NumberToString(now + SessionTimeout)
              ELSE FailedByBackend(o)]_vars

\* C13: the steps of a login or register that fails because request()
\* rejects (its start, the settling of its request, its return) leave the
\* current user, the stored entries and the cache as they are, and it
\* returns success false with the message of the rejection.
C13_FailureKeepsState ==
    [][\A o \in DOMAIN ops' :
          /\ ops'[o].kind \in {"login", "register"}
          /\ \/ o \notin DOMAIN ops
             \/ /\ calls'[ops'[o].call].st = "rejected"
                /\ \/ calls[ops[o].call].st = "pending"
                   \/ ops[o].st = "await" /\ ops'[o].st = "done"
          => /\ UNCHANGED <<currentUser, localStorage, cache>>
             /\ ops'[o].st = "done" =>
                   /\ ~ops'[o].success
                   /\ ops'[o].error # <<>>
                   /\ ops'[o].error = calls[ops[o].call].out.error]_vars

\* A login has returned the rejection of its request as a failure with a
\* message, and the user that was restored from the store is still held
\* and stored.
C13_Witness ==
    \E o \in AuthOps :
        /\ ops[o].kind = "login"
        /\ ops[o].st = "done"
        /\ ~ops[o].success
        /\ calls[ops[o].call].st = "rejected"
        /\ ops[o].error = calls[ops[o].call].out.error
        /\ ops[o].error # <<>>
        /\ currentUser = Obj(UserRecord)
        /\ SessionKeys \subseteq DOMAIN localStorage

\* No user is held, no entry of a session is stored and the cache is empty.
Cleared ==
    /\ currentUser = JsNull
    /\ DOMAIN localStorage \cap SessionKeys = {}
    /\ cache = EmptyMap

\* C14: a logout(), from any state, leaves no current user, none of the
\* three stored entries and an empty cache, and isAuthenticated() false; a
\* logout() in such a state changes nothing; and a cacheable call that the
\* page makes again once a logout has ended the session it had found is
\* not answered from the cache: it sends an exchange of its own or joins a
\* call that is under way.
C14_LogoutClears ==
    [][/\ Logout => Cleared' /\ ~isAuthenticated'
       /\ Logout /\ Cleared => UNCHANGED vars
       /\ /\ ret = Returned("requireAuth", TRUE)
          /\ Cleared
          /\ Len(calls') = Len(calls) + 1
          => /\ calls'[Len(calls')].via \in {"new", "queue"}
             /\ calls'[Len(calls')].via = "new" =>
                   serial' = serial + 1]_vars

\* The invocations of refreshUserData that called the API.
RefreshOps == {o \in DOMAIN ops : ops[o].kind = "refresh"}

\* C15: a refreshUserData() succeeds unless the transport or the backend
\* fails its request; when it succeeds it stores the user the backend gave;
\* and, successful or not, it leaves the stored expiry as it was, so that
\* the session still expires one sessionTimeout after the last login or
\* register.
C15_RefreshKeepsExpiry ==
    [][\A o \in RefreshOps :
          ops[o].st = "await" /\ ops'[o].st = "done" =>
              /\ IF ops'[o].success
                 THEN localStorage'["userData"] =
                          Stringify(BackendProfileUser(o).obj)
                 ELSE FailedByBackend(o)
              /\ "sessionExpiry" \in DOMAIN localStorage =>
                    /\ "sessionExpiry" \in DOMAIN localStorage'
                    /\ localStorage'["sessionExpiry"] =
                           localStorage["sessionExpiry"]]_vars

\* Whether the step invokes refreshUserData(), from a page or from the
\* refresh interval.
RefreshInvoked == RefreshUserData \/ RefreshTick

\* Whether a user is held and the time has not passed the stored expiry:
\* the state Active.
Active ==
    /\ Truthy(currentUser)
    /\ "sessionExpiry" \in DOMAIN localStorage
    /\ \E n \in ExpiryTimes :
          NumberToString(n) = localStorage["sessionExpiry"] /\ now <= n

\* C16: a refresh that is invoked, directly or by the refresh interval,
\* while the state is not Active (no user is held, or the user that is
\* held has an expiry that has passed) makes no call of request(), sends
\* no exchange and leaves the current user and the store as they are.
C16_RefreshOnlyWhenActive ==
    [][RefreshInvoked /\ ~Active =>
          UNCHANGED <<calls, reqs, serial, requestQueue, ops,
                      currentUser, localStorage>>]_vars

\* Whether a user is held and the time has passed the stored expiry: the
\* state Expired.
Expired ==
    /\ Truthy(currentUser)
    /\ "sessionExpiry" \in DOMAIN localStorage
    /\ \E n \in ExpiryTimes :
          NumberToString(n) = localStorage["sessionExpiry"] /\ now > n

\* C17: a tick of the expiry check that finds a user held whose stored
\* expiry has passed logs out: after it no user is held, isAuthenticated()
\* is false, the three entries of the session are gone and the cache is
\* empty. A tick in any other state (Active, or no user held) leaves the
\* user, the store, the cache and every request as they are.
C17_ExpiryTickLogsOut ==
    [][ExpiryTick =>
          IF Expired
          THEN /\ Cleared'
               /\ ~isAuthenticated'
          ELSE /\ UNCHANGED <<currentUser, localStorage>>
               /\ UNCHANGED apiVars]_vars

\* The expiry check has logged out a user after the time passed the expiry.
C17_Witness ==
    /\ ret = Returned("expiryCheck", FALSE)
    /\ now > StartTime
    /\ \E i \in DOMAIN intervals :
          intervals[i] = [kind |-> "check", left |-> CheckPeriod]
    /\ Cleared

\* C18: isAuthenticated() returns true exactly when a user is held and
\* the time, read at the call, has not passed the stored expiry;
\* getCurrentUser() returns the user that is held; and isAuthenticated(),
\* getCurrentUser() and a requireAuth() that returns true leave the user
\* that is held, the stored entries with the expiry among them, the cache
\* and every request as they are.
C18_ReadsAreFreshAndPure ==
    [][/\ IsAuthenticated =>
              /\ ret'.bool = Active
              /\ UNCHANGED <<currentUser, localStorage>>
              /\ UNCHANGED apiVars
       /\ GetCurrentUser =>
              /\ ret'.user = currentUser
              /\ UNCHANGED <<currentUser, localStorage>>
              /\ UNCHANGED apiVars
       /\ RequireAuth /\ ret'.bool =>
              /\ Active
              /\ UNCHANGED <<currentUser, localStorage>>
              /\ UNCHANGED apiVars]_vars

\* isAuthenticated() has returned false for a user that was restored from
\* the store while the session was running, and that is still held with
\* the entries of the session after the call.
C18_Witness ==
    /\ ret = Returned("isAuthenticated", FALSE)
    /\ Expired
    /\ currentUser = Obj(UserRecord)
    /\ SessionKeys \subseteq DOMAIN localStorage

\* C19: requireAuth() returns what isAuthenticated() gives in the state
\* it is called in, and when it returns false it has logged out: after it
\* no user is held, the three entries of the session are gone from the
\* store and the cache is empty.
C19_RequireAuthGuards ==
    [][RequireAuth =>
          /\ ret'.op = "requireAuth"
          /\ ret'.bool = isAuthenticated
          /\ ~ret'.bool => Cleared']_vars

\* A refresh found the user authenticated, time has passed, and
\* requireAuth() has returned false with the session and the cache cleared.
C19_Witness ==
    /\ ret = Returned("requireAuth", FALSE)
    /\ Cleared
    /\ now > StartTime
    /\ \E o \in RefreshOps : ops[o].st = "done" /\ ops[o].from

\* C20: constructing the AuthService over a store that holds the three
\* entries of a session whose expiry the time has not passed leaves the
\* stored user as the current user and isAuthenticated() true, and the
\* construction makes no call of request(), sends no exchange and leaves
\* the store as it is.
C20_ConstructRestores ==
    [][Construct /\ SessionStored =>
          /\ isAuthenticated'
          /\ Truthy(currentUser')
          /\ Stringify(currentUser'.obj) = localStorage["userData"]
          /\ Get(currentUser'.obj, "email") = localStorage["userEmail"]
          /\ UNCHANGED localStorage
          /\ UNCHANGED apiVars]_vars

\* The AuthService has just been constructed over a stored session that
\* is running: the stored user is the current user and nothing was sent.
C20_Witness ==
    /\ Constructed
    /\ intervals = setupAutoRefresh
    /\ localStorage = StoredSession(StartTime + RefreshPeriod)
    /\ currentUser = Obj(UserRecord)
    /\ isAuthenticated
    /\ now = StartTime
    /\ calls = <<>>
    /\ serial = 0

(* ------------------- claims on the start of a page -------------------- *)

\* Whether the three entries of a session are stored and the time has
\* passed the expiry they give.
ExpiredSessionStored ==
    /\ SessionKeys \subseteq DOMAIN localStorage
    /\ \E n \in ExpiryTimes :
          NumberToString(n) = localStorage["sessionExpiry"] /\ now > n

\* C21: constructing the AuthService over a store that holds the three
\* entries of a session whose expiry the time has passed logs out during
\* the construction: after it no user is held, isAuthenticated() is false
\* and none of the three entries is stored.
C21_ConstructLogsOutExpired ==
    [][Construct /\ ExpiredSessionStored =>
          /\ currentUser' = JsNull
          /\ ~isAuthenticated'
          /\ DOMAIN localStorage' \cap SessionKeys = {}]_vars

\* The expiry check of the constructor has just logged out a stored
\* session: nothing of it is left and no request was made.
C21_Witness ==
    /\ ret = Returned("init", FALSE)
    /\ Cleared
    /\ calls = <<>>
    /\ ops = <<>>

\* Whether some of the three entries of a session are stored, and not all.
PartlyStored ==
    /\ DOMAIN localStorage \cap SessionKeys # {}
    /\ ~(SessionKeys \subseteq DOMAIN localStorage)

\* C22: constructing the AuthService over a store that holds some of the
\* three entries of a session and not all of them restores no user and
\* leaves isAuthenticated() false, and a call of isAuthenticated() over
\* such a store returns false.
C22_PartialIsNoSession ==
    [][/\ Construct /\ PartlyStored =>
              /\ currentUser' = JsNull
              /\ ~isAuthenticated'
       /\ IsAuthenticated /\ PartlyStored => ~ret'.bool]_vars

\* isAuthenticated() has returned false on a page that was constructed
\* over a stored user and an expiry that has not passed, without the
\* email: no user is held.
C22_Witness ==
    /\ ret = Returned("isAuthenticated", FALSE)
    /\ localStorage = Restrict(StoredSession(StartTime + RefreshPeriod),
                               {"userData", "sessionExpiry"})
    /\ now = StartTime
    /\ currentUser = JsNull

(* --------------------- claims on the global API ----------------------- *)

\* C23: on the global API a call of request() that finds its key neither
\* cached nor pending starts _makeRequest as the class defines it: the
\* retry loop is entered, an exchange is sent, and the promise stays
\* pending until the transport answers, so that it resolves with the body
\* of a success and rejects with the aggregated error of the class.
C23_InterceptorRefinesClass ==
    [][\A inp \in GlobalInputs :
          GlobalRequest(inp) /\ Len(reqs') = Len(reqs) + 1 =>
              /\ reqs'[Len(reqs')] = makeRequest(Intercepted(inp), serial + 1)
              /\ serial' = serial + 1]_vars

(* ------------------ claims on settlement and eviction ----------------- *)

\* C24: no pending entry is left for a _makeRequest whose outcome a caller
\* has observed, whether it resolved or was rejected; and every call that
\* was given the promise of a pending entry was given one that had not
\* settled, so a call made after the settlement is served by the cache or
\* starts a _makeRequest and an exchange of its own.
C24_SettledEntryRemoved ==
    /\ \A k \in DOMAIN requestQueue, c \in DOMAIN calls :
          calls[c].via # "cache" /\ calls[c].req = requestQueue[k] =>
              calls[c].st = "pending"
    /\ \A c \in DOMAIN calls :
          /\ calls[c].via = "queue" =>
                /\ calls[c].busy.id = calls[c].req
                /\ calls[c].busy.st \in {"fetch", "text", "sleep"}
          /\ calls[c].via = "new" =>
                /\ calls[c].busy.id = 0
                /\ reqs[calls[c].req].sent >= 1
                /\ \A d \in DOMAIN calls :
                      d # c /\ calls[d].via = "new" =>
                          reqs[calls[d].req].xid # reqs[calls[c].req].xid

\* A call was refused and its caller has seen the failure; a later call
\* of the same key has started an exchange of its own.
C24_Witness ==
    \E c, d \in DOMAIN calls :
        /\ c < d
        /\ calls[c].key = calls[d].key
        /\ calls[c].via = "new"
        /\ calls[c].st = "rejected"
        /\ calls[d].via = "new"
        /\ calls[d].req # calls[c].req
        /\ reqs[calls[d].req].st = "fetch"
        /\ requestQueue[calls[d].key] = calls[d].req

\* Whether the entry that the call of timer tm cached was removed from the
\* cache by clearCache() or clearUserCache() before the timer fires.
Invalidated(tm) ==
    \/ stored[tm.key].by # tm.by
    \/ stored[tm.key].cleared

\* Whether every value that was cached, whose time to live is running and
\* that no clear has removed, is in the cache.
VisibleUntilDue ==
    \A k \in DOMAIN stored :
        ~stored[k].cleared /\ stored[k].left > 0 =>
            k \in DOMAIN cache /\ cache[k] = stored[k].value

\* C25: a value that request() cached with a time to live stays in the
\* cache under its key until that time has passed, unless clearCache() or
\* clearUserCache() removes it first; and an eviction timer that fires
\* after its entry was removed by such a clear leaves the cache as it is.
C25_EntryLivesItsTTL ==
    [][/\ VisibleUntilDue'
       /\ \A tm \in timers :
             CacheTimeout(tm) /\ Invalidated(tm) => UNCHANGED cache]_vars

(* ---------------- claims on the session and its store ----------------- *)

\* C26: once the AuthService is constructed over a store that only an
\* AuthService has written, and while every success the backend answers
\* carries a user, the three entries of the session are stored together
\* or not at all, and a user is held exactly when they are stored.
C26_EntriesTogether ==
    Constructed =>
        /\ DOMAIN localStorage \cap SessionKeys \in {{}, SessionKeys}
        /\ Truthy(currentUser) <=> SessionKeys \subseteq DOMAIN localStorage

\* A refresh found the stored session running and the user authenticated,
\* and the expiry check has logged that user out later: no user is held
\* and none of the three entries is stored.
C26_Witness ==
    /\ ret = Returned("expiryCheck", FALSE)
    /\ \E o \in RefreshOps : ops[o].st = "done" /\ ops[o].from
    /\ currentUser = JsNull
    /\ DOMAIN localStorage \cap SessionKeys = {}

C28_NothingCachedAfterClear ==
    SomeCleared => cache = EmptyMap

(* ------------------- claims on the dashboard's reloads ---------------- *)

\* The exchange whose answer the last call made is given: the one that
\* filled the cache, the one its pending entry is waiting for, or its own.
SourceOfLast ==
    LET c == calls'[Len(calls')]
    IN  IF c.via = "cache" THEN c.out.data ELSE reqs'[c.req].xid

\* The submissions of the schedule form and of the connection form that
\* were sent.
Submits == {o \in DOMAIN ops : ops[o].kind \in {"schedule", "connect"}}

\* C29: a post.create or token.save the dashboard sends succeeds unless the
\* transport or the backend fails it, and the reload the dashboard makes
\* right after the success gets the list from an exchange that was sent
\* after the exchange of that mutation: it is not answered from a value
\* cached before it, nor by an exchange that was already under way.
C29_ReloadAfterMutationIsFresh ==
    [][\A o \in Submits :
          ops[o].st = "await" /\ ops'[o].st # "await" =>
              /\ ops'[o].success \/ FailedByBackend(o)
              /\ ops'[o].st = "reload" =>
                    /\ Len(calls') = Len(calls) + 1
                    /\ SourceOfLast > reqs[calls[ops[o].call].req].xid]_vars

\* The user a cache entry belongs to: the email in the payload of the
\* call that cached it.
Owner(k) == Get(calls[stored[k].by].data, "email")

\* C30: clearUserCache(email) removes the cache entries of the user with
\* that email, leaves every entry of another user in the cache with its
\* value, and leaves the pending entries and the session as they are.
C30_ClearsOnlyThatUser ==
    [][\A email \in Emails :
          ClearUserCache(email) =>
              /\ \A k \in DOMAIN cache :
                    IF Owner(k) = email
                    THEN k \notin DOMAIN cache'
                    ELSE k \in DOMAIN cache' /\ cache'[k] = cache[k]
              /\ UNCHANGED <<requestQueue, currentUser, localStorage>>]_vars

====
